---- MODULE Spec2Model ----
(***************************************************************************)
(* Grocery-list REST API: bearer-token authentication (jwt.ts,             *)
(* middleware.ts), the credential and item repositories over PostgreSQL,   *)
(* the item service with its Zod validation, and the route handlers.       *)
(*                                                                         *)
(* Client text is a sequence of one-character strings.  An Authorization   *)
(* header is a sequence of elements: one-character strings, and whole JWTs *)
(* (a JWT holds no space, so String.split(' ') never cuts one).            *)
(***************************************************************************)
EXTENDS Integers, Sequences, FiniteSets, TLC

VARIABLES users, graveyard, items, nextUserId, nextItemId, now, req, peer, nreq,
          hdr, tok, vnow, out, txn

vars == <<users, graveyard, items, nextUserId, nextItemId, now, req, peer, nreq,
          hdr, tok, vnow, out, txn>>

dbVars == <<users, graveyard, items, nextUserId, nextItemId>>
pureVars == <<hdr, tok, vnow, out, txn>>

(***************************************************************************)
(* Bounds of the model                                                     *)
(***************************************************************************)
MaxUsers == 2        \* user rows ever inserted
MaxItems == 2        \* item ids ever drawn from the sequence
MaxTime == 2         \* latest instant a token is issued or verified at
MaxItemTime == 1     \* clock ticks while requests are served
MaxTokenTime == 7    \* clock ticks while tokens are presented: a refresh token expires
MaxTransactions == 2 \* calls of transaction, one after the other
MaxStatements == 2   \* statements a transaction callback issues
MaxRequests == 4     \* requests received while the item routes are exercised
MaxListRequests == 5 \* requests received while items are created and listed
MaxPieces == 4       \* pieces an enumerated header value is assembled from
MaxAuthRequests == 2 \* requests received while the middleware is exercised
MaxAccountRequests == 3 \* requests received while accounts are registered and logged in to
MaxFieldRequests == 4 \* requests received while the fields of items are written and read

(***************************************************************************)
(* Configuration (config.ts); one clock tick stands for 24 hours           *)
(***************************************************************************)
jwtSecret == "your-super-secret-jwt-key-change-in-production"
jwtExpiresIn == 1
refreshTokenExpiresIn == 7

OtherSecret == "other-secret"
Secrets == {jwtSecret, OtherSecret}

(***************************************************************************)
(* Text supplied by clients is a sequence of one-character strings.        *)
(***************************************************************************)
NULL == <<"<null>">>     \* the SQL NULL of a text column
EmailA == <<"a", "@", "x", ".", "i", "o">>
EmailB == <<"b", "@", "x", ".", "i", "o">>
Emails == {EmailA, EmailB}
Password1 == <<"p", "a", "s", "s", "w", "o", "r", "d">>
Times == 0..MaxTime

RECURSIVE Flatten(_)
\* the text of a sequence of elements, as one string
Flatten(s) == IF s = <<>> THEN "" ELSE Head(s) \o Flatten(Tail(s))

(***************************************************************************)
(* Error classes (utils/errors): the kind decides the status code.         *)
(***************************************************************************)
statusCode(kind) ==
    CASE kind = "ValidationError" -> 400
      [] kind = "AuthenticationError" -> 401
      [] kind = "NotFoundError" -> 404
      [] kind = "ConflictError" -> 409
      [] kind = "DatabaseError" -> 500
      [] OTHER -> 500

AppErrorKinds == {"ValidationError", "AuthenticationError", "NotFoundError",
                  "ConflictError", "DatabaseError"}

(***************************************************************************)
(* jsonwebtoken: a token is the text of its claims and a signature keyed   *)
(* by the signing secret.                                                  *)
(***************************************************************************)
JwtEncode(c, secret) ==
    "jwt." \o ToString(c.userId) \o "." \o Flatten(c.email) \o "." \o ToString(c.iat)
      \o "." \o ToString(c.exp) \o "." \o secret

ClaimsUniverse ==
    [userId : 1..(MaxUsers + 1), email : Emails, iat : Times,
     exp : 0..(MaxTime + refreshTokenExpiresIn)]
      \cup {[userId |-> i, email |-> e, iat |-> t, exp |-> t + d] :
               i \in 1..(MaxUsers + 1), e \in Emails, t \in 0..MaxTokenTime,
               d \in {jwtExpiresIn, refreshTokenExpiresIn}}

NoClaims == [userId |-> 0, email |-> <<>>, iat |-> 0, exp |-> 0]

\* every text jwt.sign can produce, with the claims and the secret it was made from
JwtTexts ==
    LET signed == ClaimsUniverse \X Secrets
    IN  [t \in {JwtEncode(p[1], p[2]) : p \in signed} |->
            CHOOSE p \in signed : JwtEncode(p[1], p[2]) = t]

\* jwt.decode + signature check: the claims and the secret the text was signed with
JwtDecode(token) ==
    IF token \in DOMAIN JwtTexts
    THEN [wellFormed |-> TRUE, claims |-> JwtTexts[token][1], secret |-> JwtTexts[token][2]]
    ELSE [wellFormed |-> FALSE, claims |-> NoClaims, secret |-> ""]

\* jwt.sign(payload, secret, {expiresIn}) at time t
JwtSign(userId, email, secret, expiresIn, t) ==
    JwtEncode([userId |-> userId, email |-> email, iat |-> t, exp |-> t + expiresIn], secret)

generateTokens(userId, email, t) ==
    [accessToken |-> JwtSign(userId, email, jwtSecret, jwtExpiresIn, t),
     refreshToken |-> JwtSign(userId, email, jwtSecret, refreshTokenExpiresIn, t)]

Ok(v) == [ok |-> TRUE, kind |-> "", error |-> "", value |-> v]
Fail(kind, msg, v) == [ok |-> FALSE, kind |-> kind, error |-> msg, value |-> v]

\* mutant: the expiry is looked at before the signature
verifyTokenWith_expiryFirst(token, secret, t) ==
    LET d == JwtDecode(token)
    IN  IF ~d.wellFormed THEN Fail("AuthenticationError", "Invalid token", NoClaims)
        ELSE IF t >= d.claims.exp THEN Fail("AuthenticationError", "Token has expired", NoClaims)
        ELSE IF d.secret # secret THEN Fail("AuthenticationError", "Invalid token", NoClaims)
        ELSE Ok(d.claims)

\* mutant: only a token with the lifetime of an access token is accepted
verifyTokenWith_accessOnly(token, secret, t) ==
    LET d == JwtDecode(token)
    IN  IF ~d.wellFormed THEN Fail("AuthenticationError", "Invalid token", NoClaims)
        ELSE IF d.secret # secret THEN Fail("AuthenticationError", "Invalid token", NoClaims)
        ELSE IF t >= d.claims.exp THEN Fail("AuthenticationError", "Token has expired", NoClaims)
        ELSE IF d.claims.exp - d.claims.iat # jwtExpiresIn
        THEN Fail("AuthenticationError", "Invalid token", NoClaims)
        ELSE Ok(d.claims)

verifyTokenWith(token, secret, t) ==
    LET d == JwtDecode(token)
    IN  IF ~d.wellFormed THEN Fail("AuthenticationError", "Invalid token", NoClaims)
        ELSE IF d.secret # secret THEN Fail("AuthenticationError", "Invalid token", NoClaims)
        ELSE IF t >= d.claims.exp THEN Fail("AuthenticationError", "Token has expired", NoClaims)
        ELSE Ok(d.claims)

verifyToken(token, t) == verifyTokenWith(token, jwtSecret, t)

(***************************************************************************)
(* extractTokenFromHeader                                                  *)
(***************************************************************************)
NoHeader == [present |-> FALSE, value |-> <<>>]
Header(v) == [present |-> TRUE, value |-> v]

BearerWord == <<"B", "e", "a", "r", "e", "r">>

RECURSIVE Split(_, _)
\* String.prototype.split(sep) for a one-character separator
Split(s, sep) ==
    IF s = <<>> THEN << <<>> >>
    ELSE LET rest == Split(Tail(s), sep)
         IN  IF Head(s) = sep THEN << <<>> >> \o rest
             ELSE << <<Head(s)>> \o rest[1] >> \o Tail(rest)

extractTokenFromHeader(authHeader) ==
    IF ~authHeader.present \/ authHeader.value = <<>>
    THEN Fail("AuthenticationError", "Authorization header missing", "")
    ELSE LET parts == Split(authHeader.value, " ")
         IN  IF Len(parts) # 2 \/ parts[1] # BearerWord
             THEN Fail("AuthenticationError", "Invalid authorization header format", "")
             ELSE Ok(Flatten(parts[2]))

Bearer(token) == Header(BearerWord \o <<" ", token>>)

(***************************************************************************)
(* JSON objects: the set of keys present and a value for every field.      *)
(***************************************************************************)
BlankFields ==
    [name |-> <<>>, quantity |-> 0, store |-> <<>>, category |-> <<>>, notes |-> <<>>,
     isPurchased |-> FALSE, search |-> <<>>, email |-> <<>>, password |-> <<>>]

Obj(keys, v) == [keys |-> keys, v |-> v]
EmptyObj == Obj({}, BlankFields)

\* the query string of GET /api/grocery-items: each parameter present is text
BlankQuery == [category |-> <<>>, store |-> <<>>, search |-> <<>>, isPurchased |-> <<>>]
Query(keys, v) == [keys |-> keys, v |-> v]

RECURSIVE Join(_, _)
\* Array.prototype.join
Join(msgs, sep) ==
    IF msgs = <<>> THEN ""
    ELSE IF Len(msgs) = 1 THEN msgs[1]
    ELSE msgs[1] \o sep \o Join(Tail(msgs), sep)

(***************************************************************************)
(* validation.ts: the Zod schemas and validateRequestBody, which throws a  *)
(* plain Error.                                                            *)
(***************************************************************************)
MaxLenError(data, key, text, limit, msg) ==
    IF key \in data.keys /\ Len(text) > limit THEN <<msg>> ELSE <<>>

QuantityError(data) ==
    IF "quantity" \in data.keys /\ data.v.quantity < 1
    THEN <<"Quantity must be at least 1">> ELSE <<>>

OptionalFieldErrors(data) ==
    MaxLenError(data, "store", data.v.store, 255, "Store name must be 255 characters or less")
    \o MaxLenError(data, "category", data.v.category, 100, "Category must be 100 characters or less")
    \o MaxLenError(data, "notes", data.v.notes, 1000, "Notes must be 1000 characters or less")

validateRequestBody(errors, parsed) ==
    IF errors # <<>>
    THEN Fail("Error", "Validation failed: " \o Join(errors, ", "), parsed)
    ELSE Ok(parsed)

\* mutant: the name limit is off by one
createGroceryItemSchema_nameMax256(data) ==
    LET nameErrors ==
            IF "name" \notin data.keys THEN <<"Required">>
            ELSE IF Len(data.v.name) < 1 THEN <<"Item name is required">>
            ELSE IF Len(data.v.name) > 256 THEN <<"Item name must be 255 characters or less">>
            ELSE <<>>
        parsed ==
            Obj((data.keys \cap {"name", "store", "category", "notes"}) \cup {"quantity"},
                [data.v EXCEPT !.quantity = IF "quantity" \in data.keys THEN @ ELSE 1])
    IN  validateRequestBody(nameErrors \o QuantityError(data) \o OptionalFieldErrors(data), parsed)

createGroceryItemSchema(data) ==
    LET nameErrors ==
            IF "name" \notin data.keys THEN <<"Required">>
            ELSE IF Len(data.v.name) < 1 THEN <<"Item name is required">>
            ELSE IF Len(data.v.name) > 255 THEN <<"Item name must be 255 characters or less">>
            ELSE <<>>
        parsed ==
            Obj((data.keys \cap {"name", "store", "category", "notes"}) \cup {"quantity"},
                [data.v EXCEPT !.quantity = IF "quantity" \in data.keys THEN @ ELSE 1])
    IN  validateRequestBody(nameErrors \o QuantityError(data) \o OptionalFieldErrors(data), parsed)

UpdateKeys == {"name", "quantity", "store", "category", "notes", "isPurchased"}

updateGroceryItemSchema(data) ==
    LET nameErrors ==
            IF "name" \notin data.keys THEN <<>>
            ELSE IF Len(data.v.name) < 1 THEN <<"Item name cannot be empty">>
            ELSE IF Len(data.v.name) > 255 THEN <<"Item name must be 255 characters or less">>
            ELSE <<>>
        parsed == Obj(data.keys \cap UpdateKeys, data.v)
        fieldErrors == nameErrors \o QuantityError(data) \o OptionalFieldErrors(data)
        refineErrors ==
            IF Cardinality(parsed.keys) = 0
            THEN <<"At least one field must be provided for update">> ELSE <<>>
    IN  validateRequestBody(fieldErrors \o refineErrors, parsed)

groceryItemFiltersSchema(filters) ==
    LET parsed == Obj(filters.keys \cap {"store", "category", "isPurchased", "search"}, filters.v)
        errors ==
            MaxLenError(filters, "store", filters.v.store, 255, "Store filter must be 255 characters or less")
            \o MaxLenError(filters, "category", filters.v.category, 100, "Category filter must be 100 characters or less")
            \o MaxLenError(filters, "search", filters.v.search, 255, "Search term must be 255 characters or less")
    IN  validateRequestBody(errors, parsed)

idSchema(id) ==
    validateRequestBody(IF id > 0 THEN <<>> ELSE <<"ID must be a positive integer">>, id)

(***************************************************************************)
(* The database (init.sql) and connection.ts                               *)
(***************************************************************************)
NoUser == [id |-> 0, email |-> <<>>, createdAt |-> 0, updatedAt |-> 0]
NoItem ==
    [id |-> 0, userId |-> 0, name |-> <<>>, quantity |-> 0, category |-> NULL,
     notes |-> NULL, isPurchased |-> FALSE, createdAt |-> 0, updatedAt |-> 0]
NoView ==
    [id |-> 0, name |-> <<>>, quantity |-> 0, category |-> NULL,
     notes |-> NULL, isPurchased |-> FALSE, createdAt |-> 0, updatedAt |-> 0]

\* query(): any failure of the driver is rethrown as DatabaseError
QueryFailed(v) == Fail("DatabaseError", "Database query failed", v)

(***************************************************************************)
(* PostgresUserRepository                                                  *)
(***************************************************************************)
userView(row) ==
    [id |-> row.id, email |-> row.email, createdAt |-> row.createdAt,
     updatedAt |-> row.updatedAt]

userFindById(us, id, dbDown) ==
    IF dbDown THEN QueryFailed(NoUser)
    ELSE LET rows == {u \in us : u.id = id}
         IN  IF rows = {} THEN Ok(NoUser) ELSE Ok(userView(CHOOSE u \in rows : TRUE))

\* mutant: the email is compared with the wrong column, so no row is ever found
userFindByEmail_wrongColumn(us, email, dbDown) ==
    IF dbDown THEN QueryFailed(NoUser)
    ELSE LET rows == {u \in us : u.passwordHash = email}
         IN  IF rows = {} THEN Ok(NoUser) ELSE Ok(userView(CHOOSE u \in rows : TRUE))

userFindByEmail(us, email, dbDown) ==
    IF dbDown THEN QueryFailed(NoUser)
    ELSE LET rows == {u \in us : u.email = email}
         IN  IF rows = {} THEN Ok(NoUser) ELSE Ok(userView(CHOOSE u \in rows : TRUE))

(***************************************************************************)
(* PostgresGroceryItemRepository                                           *)
(***************************************************************************)
mapDbRowToGroceryItem(row) ==
    [id |-> row.id, userId |-> row.userId, name |-> row.name, quantity |-> row.quantity,
     category |-> row.category, notes |-> row.notes, isPurchased |-> row.isPurchased,
     createdAt |-> row.createdAt, updatedAt |-> row.updatedAt]

\* mutant: the WHERE clause without its user_id condition
ScopedRows_idOnly(its, id, userId) == {i \in its : i.id = id}

\* the rows a statement's WHERE id = $1 AND user_id = $2 selects
ScopedRows(its, id, userId) == {i \in its : i.id = id /\ i.userId = userId}

OrNull(text) == IF text = <<>> THEN NULL ELSE text

\* INSERT INTO grocery_items ...: the new row, or a foreign-key violation
itemCreate(its, us, nextId, userId, itemData, t, dbDown) ==
    LET row ==
            [id |-> nextId, userId |-> userId, name |-> itemData.v.name,
             quantity |-> IF "quantity" \in itemData.keys THEN itemData.v.quantity ELSE 1,
             store |-> NULL,
             category |-> IF "category" \in itemData.keys THEN OrNull(itemData.v.category) ELSE NULL,
             notes |-> IF "notes" \in itemData.keys THEN OrNull(itemData.v.notes) ELSE NULL,
             isPurchased |-> FALSE, createdAt |-> t, updatedAt |-> t]
    IN  IF dbDown THEN [res |-> QueryFailed(NoItem), items |-> its, nextId |-> nextId]
        ELSE IF userId \notin {u.id : u \in us}
        THEN [res |-> QueryFailed(NoItem), items |-> its, nextId |-> nextId + 1]
        ELSE [res |-> Ok(mapDbRowToGroceryItem(row)), items |-> its \cup {row},
              nextId |-> nextId + 1]

itemFindById(its, id, userId, dbDown) ==
    IF dbDown THEN QueryFailed(NoItem)
    ELSE LET rows == ScopedRows(its, id, userId)
         IN  IF rows = {} THEN Ok(NoItem)
             ELSE Ok(mapDbRowToGroceryItem(CHOOSE r \in rows : TRUE))

\* the columns the dynamic UPDATE sets
UpdateFields(updateData) ==
    updateData.keys \cap {"name", "quantity", "category", "notes", "isPurchased"}

UpdatedRow(row, updateData, t) ==
    LET has(k) == k \in updateData.keys
    IN  [row EXCEPT !.name = IF has("name") THEN updateData.v.name ELSE @,
                    !.quantity = IF has("quantity") THEN updateData.v.quantity ELSE @,
                    !.category = IF has("category") THEN updateData.v.category ELSE @,
                    !.notes = IF has("notes") THEN updateData.v.notes ELSE @,
                    !.isPurchased = IF has("isPurchased") THEN updateData.v.isPurchased ELSE @,
                    !.updatedAt = t]

\* mutant: UPDATE ... SET user_id = $n ... WHERE id = $1
itemUpdate_takesOver(its, id, userId, updateData, t, dbDown) ==
    IF UpdateFields(updateData) = {}
    THEN [res |-> Fail("DatabaseError", "No fields to update", NoItem), items |-> its]
    ELSE IF dbDown THEN [res |-> QueryFailed(NoItem), items |-> its]
    ELSE LET rows == {i \in its : i.id = id}
         IN  IF rows = {}
             THEN [res |-> Fail("NotFoundError", "Grocery item not found", NoItem), items |-> its]
             ELSE LET row == CHOOSE r \in rows : TRUE
                      new == [UpdatedRow(row, updateData, t) EXCEPT !.userId = userId]
                  IN  [res |-> Ok(mapDbRowToGroceryItem(new)),
                       items |-> (its \ {row}) \cup {new}]

itemUpdate(its, id, userId, updateData, t, dbDown) ==
    IF UpdateFields(updateData) = {}
    THEN [res |-> Fail("DatabaseError", "No fields to update", NoItem), items |-> its]
    ELSE IF dbDown THEN [res |-> QueryFailed(NoItem), items |-> its]
    ELSE LET rows == ScopedRows(its, id, userId)
         IN  IF rows = {}
             THEN [res |-> Fail("NotFoundError", "Grocery item not found", NoItem), items |-> its]
             ELSE LET row == CHOOSE r \in rows : TRUE
                      new == UpdatedRow(row, updateData, t)
                  IN  [res |-> Ok(mapDbRowToGroceryItem(new)),
                       items |-> (its \ {row}) \cup {new}]

\* mutant: DELETE ... WHERE id = $1
itemDelete_idOnly(its, id, userId, dbDown) ==
    IF dbDown THEN [res |-> QueryFailed(FALSE), items |-> its]
    ELSE LET rows == {i \in its : i.id = id}
         IN  [res |-> Ok(rows # {}), items |-> its \ rows]

itemDelete(its, id, userId, dbDown) ==
    IF dbDown THEN [res |-> QueryFailed(FALSE), items |-> its]
    ELSE LET rows == ScopedRows(its, id, userId)
         IN  [res |-> Ok(rows # {}), items |-> its \ rows]

(***************************************************************************)
(* ILIKE, as PostgreSQL evaluates it: % and _ are wildcards, backslash     *)
(* escapes, letters compare without case, NULL never matches.              *)
(***************************************************************************)
UpperLetters == <<"A", "B", "C", "D", "E", "F", "G", "H", "I", "J", "K", "L", "M",
                  "N", "O", "P", "Q", "R", "S", "T", "U", "V", "W", "X", "Y", "Z">>
LowerLetters == <<"a", "b", "c", "d", "e", "f", "g", "h", "i", "j", "k", "l", "m",
                  "n", "o", "p", "q", "r", "s", "t", "u", "v", "w", "x", "y", "z">>

Lower(c) ==
    IF \E k \in 1..26 : UpperLetters[k] = c
    THEN LowerLetters[CHOOSE k \in 1..26 : UpperLetters[k] = c]
    ELSE c

RECURSIVE Like(_, _)
Like(text, pattern) ==
    IF pattern = <<>> THEN text = <<>>
    ELSE IF Head(pattern) = "%"
    THEN Like(text, Tail(pattern)) \/ (text # <<>> /\ Like(Tail(text), pattern))
    ELSE IF Head(pattern) = "\\" /\ Len(pattern) >= 2
    THEN /\ text # <<>>
         /\ Lower(Head(text)) = Lower(pattern[2])
         /\ Like(Tail(text), Tail(Tail(pattern)))
    ELSE IF Head(pattern) = "_" THEN text # <<>> /\ Like(Tail(text), Tail(pattern))
    ELSE /\ text # <<>>
         /\ Lower(Head(text)) = Lower(Head(pattern))
         /\ Like(Tail(text), Tail(pattern))

ILike(column, pattern) == column # NULL /\ Like(column, pattern)

\* mutant: the search condition without its parentheses, so that OR escapes the scope
FilteredRows_unscopedOr(its, userId, filters) ==
    {i \in its :
        \/ /\ i.userId = userId
           /\ ("category" \in filters.keys /\ filters.v.category # <<>>)
                 => i.category = filters.v.category
           /\ "isPurchased" \in filters.keys => i.isPurchased = filters.v.isPurchased
           /\ ("search" \in filters.keys /\ filters.v.search # <<>>)
                 => ILike(i.name, <<"%">> \o filters.v.search \o <<"%">>)
        \/ /\ "search" \in filters.keys /\ filters.v.search # <<>>
           /\ ILike(i.notes, <<"%">> \o filters.v.search \o <<"%">>)}

\* the rows the SELECT of findByUserId keeps
FilteredRows(its, userId, filters) ==
    {i \in its :
        /\ i.userId = userId
        /\ ("category" \in filters.keys /\ filters.v.category # <<>>)
              => i.category = filters.v.category
        /\ "isPurchased" \in filters.keys => i.isPurchased = filters.v.isPurchased
        /\ ("search" \in filters.keys /\ filters.v.search # <<>>)
              => LET pattern == <<"%">> \o filters.v.search \o <<"%">>
                 IN  ILike(i.name, pattern) \/ ILike(i.notes, pattern)}

\* ORDER BY created_at DESC: every order of the rows the clause allows
NewestFirst(rows) ==
    {q \in [1..Cardinality(rows) -> rows] :
        /\ \A a, b \in 1..Cardinality(rows) : a # b => q[a] # q[b]
        /\ \A a, b \in 1..Cardinality(rows) : a < b => q[a].createdAt >= q[b].createdAt}

\* findByUserId: the possible result lists
itemFindByUserId(its, userId, filters) ==
    {[k \in 1..Len(q) |-> mapDbRowToGroceryItem(q[k])] :
        q \in NewestFirst(FilteredRows(its, userId, filters))}

(***************************************************************************)
(* GroceryItemServiceImpl (grocery-item.service.ts)                        *)
(***************************************************************************)
toGroceryItemResponse(item) ==
    [id |-> item.id, name |-> item.name, quantity |-> item.quantity,
     category |-> item.category, notes |-> item.notes, isPurchased |-> item.isPurchased,
     createdAt |-> item.createdAt, updatedAt |-> item.updatedAt]

Thrown(res) == Fail(res.kind, res.error, NoView)

createItem(its, us, nextId, userId, itemData, t, dbDown) ==
    LET validatedData == createGroceryItemSchema(itemData)
        c == itemCreate(its, us, nextId, userId, validatedData.value, t, dbDown)
    IN  IF ~validatedData.ok
        THEN [res |-> Thrown(validatedData), items |-> its, nextId |-> nextId]
        ELSE [res |-> IF c.res.ok THEN Ok(toGroceryItemResponse(c.res.value))
                      ELSE Thrown(c.res),
              items |-> c.items, nextId |-> c.nextId]

getItem(its, id, userId, dbDown) ==
    LET item == itemFindById(its, id, userId, dbDown)
    IN  IF ~idSchema(id).ok THEN Thrown(idSchema(id))
        ELSE IF ~item.ok THEN Thrown(item)
        ELSE IF item.value = NoItem
        THEN Fail("NotFoundError", "Grocery item not found", NoView)
        ELSE Ok(toGroceryItemResponse(item.value))

\* getUserItems: the failure, or the possible lists of item views
getUserItems(its, userId, filters, dbDown) ==
    LET validated == groceryItemFiltersSchema(filters)
    IN  IF ~validated.ok THEN {Fail(validated.kind, validated.error, <<>>)}
        ELSE IF dbDown THEN {QueryFailed(<<>>)}
        ELSE {Ok([k \in 1..Len(q) |-> toGroceryItemResponse(q[k])]) :
                 q \in itemFindByUserId(its, userId, validated.value)}

\* mutant: the row is looked for before the patch is validated
updateItem_lookupFirst(its, id, userId, updateData, t, dbDown) ==
    LET validatedData == updateGroceryItemSchema(updateData)
        found == itemFindById(its, id, userId, dbDown)
        u == itemUpdate(its, id, userId, validatedData.value, t, dbDown)
    IN  IF ~idSchema(id).ok THEN [res |-> Thrown(idSchema(id)), items |-> its]
        ELSE IF ~found.ok THEN [res |-> Thrown(found), items |-> its]
        ELSE IF found.value = NoItem
        THEN [res |-> Fail("NotFoundError", "Grocery item not found", NoView), items |-> its]
        ELSE IF ~validatedData.ok THEN [res |-> Thrown(validatedData), items |-> its]
        ELSE [res |-> IF u.res.ok THEN Ok(toGroceryItemResponse(u.res.value))
                      ELSE Thrown(u.res),
              items |-> u.items]

updateItem(its, id, userId, updateData, t, dbDown) ==
    LET validatedData == updateGroceryItemSchema(updateData)
        u == itemUpdate(its, id, userId, validatedData.value, t, dbDown)
    IN  IF ~idSchema(id).ok THEN [res |-> Thrown(idSchema(id)), items |-> its]
        ELSE IF ~validatedData.ok THEN [res |-> Thrown(validatedData), items |-> its]
        ELSE [res |-> IF u.res.ok THEN Ok(toGroceryItemResponse(u.res.value))
                      ELSE Thrown(u.res),
              items |-> u.items]

deleteItem(its, id, userId, dbDown) ==
    LET d == itemDelete(its, id, userId, dbDown)
    IN  IF ~idSchema(id).ok THEN [res |-> Thrown(idSchema(id)), items |-> its]
        ELSE IF ~d.res.ok THEN [res |-> Thrown(d.res), items |-> its]
        ELSE IF ~d.res.value
        THEN [res |-> Fail("NotFoundError", "Grocery item not found", NoView), items |-> d.items]
        ELSE [res |-> Ok(NoView), items |-> d.items]

(***************************************************************************)
(* Responses.  kind is the class of the error the request ended with (not  *)
(* sent to the client); the other fields are the status line and the body. *)
(***************************************************************************)
NoTokens == [accessToken |-> "", refreshToken |-> ""]

NoResp ==
    [status |-> 0, kind |-> "", error |-> "", message |-> "", item |-> NoView,
     items |-> <<>>, count |-> 0, user |-> NoUser, tokens |-> NoTokens]

ErrorBody(status, kind, msg) == [NoResp EXCEPT !.status = status, !.kind = kind, !.error = msg]

\* the catch blocks of the routes: an AppError answers with its own status and message
ErrorResponse(res) ==
    IF res.kind \in AppErrorKinds
    THEN ErrorBody(statusCode(res.kind), res.kind, res.error)
    ELSE ErrorBody(500, res.kind, "Internal server error")

\* the body the client sees
ClientView(resp) == [resp EXCEPT !.kind = ""]

(***************************************************************************)
(* parseInt(text), radix 10 (a 0x prefix selects radix 16)                 *)
(***************************************************************************)
HexDigits == <<"0", "1", "2", "3", "4", "5", "6", "7", "8", "9",
               "a", "b", "c", "d", "e", "f">>
NaN == [nan |-> TRUE, val |-> 0]
Num(n) == [nan |-> FALSE, val |-> n]

DigitValue(c, radix) ==
    IF \E k \in 1..radix : HexDigits[k] = Lower(c)
    THEN (CHOOSE k \in 1..radix : HexDigits[k] = Lower(c)) - 1
    ELSE -1

RECURSIVE ParseDigits(_, _, _, _)
\* the longest prefix of digits: <<value, number of digits>>
ParseDigits(s, radix, acc, n) ==
    IF s = <<>> \/ DigitValue(Head(s), radix) < 0 THEN <<acc, n>>
    ELSE ParseDigits(Tail(s), radix, acc * radix + DigitValue(Head(s), radix), n + 1)

RECURSIVE TrimStart(_)
TrimStart(s) == IF s # <<>> /\ Head(s) = " " THEN TrimStart(Tail(s)) ELSE s

parseInt(text) ==
    LET t == TrimStart(text)
        negative == t # <<>> /\ Head(t) = "-"
        u == IF t # <<>> /\ Head(t) \in {"-", "+"} THEN Tail(t) ELSE t
        hex == Len(u) >= 2 /\ u[1] = "0" /\ Lower(u[2]) = "x"
        d == IF hex THEN ParseDigits(Tail(Tail(u)), 16, 0, 0) ELSE ParseDigits(u, 10, 0, 0)
    IN  IF d[2] = 0 THEN NaN
        ELSE Num(IF negative THEN 0 - d[1] ELSE d[1])

(***************************************************************************)
(* middleware.ts                                                           *)
(***************************************************************************)
\* mutant: the user is taken from the id of the token, found or not
validateUser_trustsToken(us, userId, dbDown) ==
    LET user == userFindById(us, userId, dbDown)
    IN  IF ~user.ok THEN user
        ELSE IF user.value = NoUser
        THEN Ok([NoUser EXCEPT !.id = userId])
        ELSE user

\* mutant: the user is looked up without the id of the token
validateUser_anyRow(us, userId, dbDown) ==
    LET first == IF us = {} THEN userId
                 ELSE CHOOSE i \in {u.id : u \in us} : \A u \in us : i <= u.id
        user == userFindById(us, first, dbDown)
    IN  IF ~user.ok THEN user
        ELSE IF user.value = NoUser
        THEN Fail("AuthenticationError", "User not found", NoUser)
        ELSE user

validateUser(us, userId, dbDown) ==
    LET user == userFindById(us, userId, dbDown)
    IN  IF ~user.ok THEN user
        ELSE IF user.value = NoUser
        THEN Fail("AuthenticationError", "User not found", NoUser)
        ELSE user

\* mutant: only an AuthenticationError is caught, any other error is thrown on
authenticate_rethrows(authHeader, us, t, dbDown) ==
    LET token == extractTokenFromHeader(authHeader)
        payload == verifyToken(token.value, t)
        user == validateUser(us, payload.value.userId, dbDown)
        caught(e) == Fail(e.kind, e.error, NoUser)
    IN  IF ~token.ok THEN caught(token)
        ELSE IF ~payload.ok THEN caught(payload)
        ELSE IF ~user.ok THEN caught(user)
        ELSE user

\* mutant: the token is decoded, its signature and its expiry are not verified
authenticate_decodesOnly(authHeader, us, t, dbDown) ==
    LET token == extractTokenFromHeader(authHeader)
        decoded == JwtDecode(token.value)
        payload == IF decoded.wellFormed THEN Ok(decoded.claims)
                   ELSE Fail("AuthenticationError", "Invalid token", NoClaims)
        user == validateUser(us, payload.value.userId, dbDown)
        caught(e) == IF e.kind = "AuthenticationError" THEN Fail(e.kind, e.error, NoUser)
                     ELSE Fail("AuthenticationError", "Authentication failed", NoUser)
    IN  IF ~token.ok THEN caught(token)
        ELSE IF ~payload.ok THEN caught(payload)
        ELSE IF ~user.ok THEN caught(user)
        ELSE user

authenticate(authHeader, us, t, dbDown) ==
    LET token == extractTokenFromHeader(authHeader)
        payload == verifyToken(token.value, t)
        user == validateUser(us, payload.value.userId, dbDown)
        caught(e) == IF e.kind = "AuthenticationError" THEN Fail(e.kind, e.error, NoUser)
                     ELSE Fail("AuthenticationError", "Authentication failed", NoUser)
    IN  IF ~token.ok THEN caught(token)
        ELSE IF ~payload.ok THEN caught(payload)
        ELSE IF ~user.ok THEN caught(user)
        ELSE user

\* mutant: one message for every cause
withAuthRejection_oneMessage(e) ==
    IF e.kind = "AuthenticationError"
    THEN ErrorBody(statusCode(e.kind), e.kind, "Unauthorized")
    ELSE ErrorBody(500, e.kind, "Internal server error")

\* withAuth: the response when authenticate throws
withAuthRejection(e) ==
    IF e.kind = "AuthenticationError"
    THEN ErrorBody(statusCode(e.kind), e.kind, e.error)
    ELSE ErrorBody(500, e.kind, "Internal server error")

(***************************************************************************)
(* Route handlers of /api/grocery-items and /api/grocery-items/[id]        *)
(***************************************************************************)
InvalidItemId == ErrorBody(400, "", "Invalid item ID")

routeGetItem(its, user, idParam, dbDown) ==
    LET itemId == parseInt(idParam)
        r == getItem(its, itemId.val, user.id, dbDown)
    IN  IF itemId.nan THEN InvalidItemId
        ELSE IF ~r.ok THEN ErrorResponse(r)
        ELSE [NoResp EXCEPT !.status = 200,
                            !.message = "Grocery item retrieved successfully",
                            !.item = r.value]

routeUpdateItem(its, user, idParam, body, t, dbDown) ==
    LET itemId == parseInt(idParam)
        r == updateItem(its, itemId.val, user.id, body, t, dbDown)
    IN  IF itemId.nan THEN [resp |-> InvalidItemId, items |-> its]
        ELSE IF ~r.res.ok THEN [resp |-> ErrorResponse(r.res), items |-> r.items]
        ELSE [resp |-> [NoResp EXCEPT !.status = 200,
                                      !.message = "Grocery item updated successfully",
                                      !.item = r.res.value],
              items |-> r.items]

routeDeleteItem(its, user, idParam, dbDown) ==
    LET itemId == parseInt(idParam)
        r == deleteItem(its, itemId.val, user.id, dbDown)
    IN  IF itemId.nan THEN [resp |-> InvalidItemId, items |-> its]
        ELSE IF ~r.res.ok THEN [resp |-> ErrorResponse(r.res), items |-> r.items]
        ELSE [resp |-> [NoResp EXCEPT !.status = 200,
                                      !.message = "Grocery item deleted successfully"],
              items |-> r.items]

\* GET /api/grocery-items builds the filters from the query string
routeFilters(query) ==
    LET has(k, text) == k \in query.keys /\ text # <<>>
    IN  Obj((IF has("category", query.v.category) THEN {"category"} ELSE {})
              \cup (IF has("isPurchased", query.v.isPurchased) THEN {"isPurchased"} ELSE {})
              \cup (IF has("search", query.v.search) THEN {"search"} ELSE {}),
            [BlankFields EXCEPT !.category = query.v.category,
                                !.isPurchased = (query.v.isPurchased = <<"t", "r", "u", "e">>),
                                !.search = query.v.search])

\* the possible responses of GET /api/grocery-items
routeListItems(its, user, query, dbDown) ==
    {IF ~r.ok THEN ErrorResponse(r)
     ELSE [NoResp EXCEPT !.status = 200,
                         !.message = "Grocery items retrieved successfully",
                         !.items = r.value, !.count = Len(r.value)] :
        r \in getUserItems(its, user.id, routeFilters(query), dbDown)}

routeCreateItem(its, us, nextId, user, body, t, dbDown) ==
    LET r == createItem(its, us, nextId, user.id, body, t, dbDown)
    IN  [resp |-> IF ~r.res.ok THEN ErrorResponse(r.res)
                  ELSE [NoResp EXCEPT !.status = 201,
                                      !.message = "Grocery item created successfully",
                                      !.item = r.res.value],
         items |-> r.items, nextId |-> r.nextId]

(***************************************************************************)
(* Registration (auth.service.ts, password.ts, the register route)         *)
(***************************************************************************)
Count(s, c) == Cardinality({k \in 1..Len(s) : s[k] = c})

\* z.string().email(): local@domain.tld without blanks
IsEmail(text) ==
    /\ Count(text, "@") = 1
    /\ Count(text, " ") = 0
    /\ LET at == CHOOSE k \in 1..Len(text) : text[k] = "@"
       IN  /\ at > 1
           /\ \E dot \in (at + 2)..(Len(text) - 1) : text[dot] = "."
           /\ text[Len(text)] # "."
           /\ text[at + 1] # "."

createUserSchema(data) ==
    validateRequestBody(
        (IF "email" \notin data.keys THEN <<"Required">>
         ELSE IF ~IsEmail(data.v.email) THEN <<"Invalid email format">> ELSE <<>>)
        \o (IF "password" \notin data.keys THEN <<"Required">>
            ELSE IF Len(data.v.password) < 8
            THEN <<"Password must be at least 8 characters long">> ELSE <<>>),
        Obj(data.keys \cap {"email", "password"}, data.v))

\* bcrypt.hash: the digest determines the password it was made from
hashPassword(password) == <<"$2a$">> \o password

\* INSERT INTO users ...: the new row, or the unique-email violation
userCreate(us, nextId, email, passwordHash, t, dbDown) ==
    LET row == [id |-> nextId, email |-> email, passwordHash |-> passwordHash,
                createdAt |-> t, updatedAt |-> t]
    IN  IF dbDown THEN [res |-> QueryFailed(NoUser), users |-> us, nextId |-> nextId]
        ELSE IF \E u \in us : u.email = email
        THEN [res |-> QueryFailed(NoUser), users |-> us, nextId |-> nextId + 1]
        ELSE [res |-> Ok(userView(row)), users |-> us \cup {row}, nextId |-> nextId + 1]

(***************************************************************************)
(* Login (auth.service.ts, the login route)                                *)
(***************************************************************************)
loginSchema(data) ==
    validateRequestBody(
        (IF "email" \notin data.keys THEN <<"Required">>
         ELSE IF ~IsEmail(data.v.email) THEN <<"Invalid email format">> ELSE <<>>)
        \o (IF "password" \notin data.keys THEN <<"Required">>
            ELSE IF Len(data.v.password) < 1 THEN <<"Password is required">> ELSE <<>>),
        Obj(data.keys \cap {"email", "password"}, data.v))

\* bcrypt.compare
verifyPassword(password, hash) == hash = hashPassword(password)

\* SELECT id, email, password_hash, ... WHERE id = $1: the row with its hash, or null
userFindByIdWithPassword(us, id, dbDown) ==
    IF dbDown THEN QueryFailed(NoUser)
    ELSE LET rows == {u \in us : u.id = id}
         IN  IF rows = {} THEN Ok(NoUser) ELSE Ok(CHOOSE u \in rows : TRUE)

InvalidCredentials == Fail("AuthenticationError", "Invalid email or password", NoUser)

\* mutant: the user is returned as it was read, password hash included
login_keepsHash(us, loginData, t, dbDown) ==
    LET validatedData == loginSchema(loginData)
        byEmail == userFindByEmail(us, loginData.v.email, dbDown)
        id == IF byEmail.value = NoUser THEN 0 ELSE byEmail.value.id
        userWithPassword == userFindByIdWithPassword(us, id, dbDown)
    IN  IF ~validatedData.ok THEN [res |-> validatedData, tokens |-> NoTokens]
        ELSE IF ~byEmail.ok THEN [res |-> byEmail, tokens |-> NoTokens]
        ELSE IF ~userWithPassword.ok THEN [res |-> userWithPassword, tokens |-> NoTokens]
        ELSE IF userWithPassword.value = NoUser
        THEN [res |-> InvalidCredentials, tokens |-> NoTokens]
        ELSE IF ~verifyPassword(loginData.v.password, userWithPassword.value.passwordHash)
        THEN [res |-> InvalidCredentials, tokens |-> NoTokens]
        ELSE [res |-> Ok(userWithPassword.value),
              tokens |-> generateTokens(userWithPassword.value.id,
                                        userWithPassword.value.email, t)]

\* mutant: an email without a row is reported as such
login_namesUnknownEmail(us, loginData, t, dbDown) ==
    LET validatedData == loginSchema(loginData)
        byEmail == userFindByEmail(us, loginData.v.email, dbDown)
        id == IF byEmail.value = NoUser THEN 0 ELSE byEmail.value.id
        userWithPassword == userFindByIdWithPassword(us, id, dbDown)
    IN  IF ~validatedData.ok THEN [res |-> validatedData, tokens |-> NoTokens]
        ELSE IF ~byEmail.ok THEN [res |-> byEmail, tokens |-> NoTokens]
        ELSE IF ~userWithPassword.ok THEN [res |-> userWithPassword, tokens |-> NoTokens]
        ELSE IF userWithPassword.value = NoUser
        THEN [res |-> Fail("AuthenticationError", "User not found", NoUser),
              tokens |-> NoTokens]
        ELSE IF ~verifyPassword(loginData.v.password, userWithPassword.value.passwordHash)
        THEN [res |-> InvalidCredentials, tokens |-> NoTokens]
        ELSE [res |-> Ok(userView(userWithPassword.value)),
              tokens |-> generateTokens(userWithPassword.value.id,
                                        userWithPassword.value.email, t)]

\* AuthServiceImpl.login: the user without its hash and a pair of tokens, or the error
login(us, loginData, t, dbDown) ==
    LET validatedData == loginSchema(loginData)
        byEmail == userFindByEmail(us, loginData.v.email, dbDown)
        id == IF byEmail.value = NoUser THEN 0 ELSE byEmail.value.id
        userWithPassword == userFindByIdWithPassword(us, id, dbDown)
    IN  IF ~validatedData.ok THEN [res |-> validatedData, tokens |-> NoTokens]
        ELSE IF ~byEmail.ok THEN [res |-> byEmail, tokens |-> NoTokens]
        ELSE IF ~userWithPassword.ok THEN [res |-> userWithPassword, tokens |-> NoTokens]
        ELSE IF userWithPassword.value = NoUser
        THEN [res |-> InvalidCredentials, tokens |-> NoTokens]
        ELSE IF ~verifyPassword(loginData.v.password, userWithPassword.value.passwordHash)
        THEN [res |-> InvalidCredentials, tokens |-> NoTokens]
        ELSE [res |-> Ok(userView(userWithPassword.value)),
              tokens |-> generateTokens(userWithPassword.value.id,
                                        userWithPassword.value.email, t)]

\* POST /api/auth/login
routeLogin(us, body, t, dbDown) ==
    LET result == login(us, body, t, dbDown)
    IN  IF ~result.res.ok THEN ErrorResponse(result.res)
        ELSE [NoResp EXCEPT !.status = 200, !.message = "Login successful",
                            !.user = result.res.value, !.tokens = result.tokens]

(***************************************************************************)
(* State: the two tables and their sequences, the clock, and the request   *)
(* in flight with its position in withAuth / the handler.                  *)
(***************************************************************************)
Ops == {"register", "login", "list", "create", "get", "update", "delete"}
ItemOps == Ops \ {"register", "login"}

IdleReq ==
    [pc |-> "idle", op |-> "", header |-> NoHeader, user |-> NoUser, idParam |-> <<>>,
     body |-> EmptyObj, query |-> Query({}, BlankQuery), resp |-> NoResp]

PureIdle ==
    /\ hdr = NoHeader
    /\ tok = ""
    /\ vnow = 0
    /\ out = Fail("Pending", "", "")

\* connection.ts: no call of transaction has been made
NoTransaction ==
    [pc |-> "idle", log |-> <<>>, held |-> 0, released |-> 0, failed |-> "",
     rollbackFailed |-> FALSE, pending |-> "", outcome |-> "", results |-> <<>>]

DbInit ==
    /\ txn = NoTransaction
    /\ users = {}
    /\ graveyard = {}
    /\ items = {}
    /\ nextUserId = 1
    /\ nextItemId = 1
    /\ now = 0
    /\ req = IdleReq
    /\ peer = IdleReq
    /\ nreq = 0

Init == DbInit /\ PureIdle

\* a request arrives: the bounds on what one behaviour receives
Receive(op, limit) ==
    /\ req.pc \in {"idle", "done"}
    /\ nreq < limit
    /\ op = "register" => nextUserId + (IF peer.pc = "insert" THEN 1 ELSE 0) <= MaxUsers
    /\ op = "create" => nextItemId <= MaxItems
    /\ nreq' = nreq + 1

\* withAuth, from the arrival of the request up to the call of the handler
Authenticate(ops, limit, header, dbDown) ==
    /\ req.pc \in {"idle", "done"}
    /\ LET user == authenticate(header, users, now, dbDown)
       IN  \E op \in ops :
              /\ Receive(op, limit)
              /\ req' = IF user.ok
                        THEN [IdleReq EXCEPT !.op = op, !.header = header,
                                             !.pc = "handler", !.user = user.value]
                        ELSE [IdleReq EXCEPT !.op = op, !.header = header,
                                             !.pc = "done", !.resp = withAuthRejection(user)]
    /\ UNCHANGED <<dbVars, now, peer, pureVars>>

HandleList(query, dbDown) ==
    /\ req.pc = "handler" /\ req.op = "list"
    /\ \E resp \in routeListItems(items, req.user, query, dbDown) :
          req' = [req EXCEPT !.pc = "done", !.query = query, !.resp = resp]
    /\ UNCHANGED <<dbVars, now, nreq, peer, pureVars>>

HandleCreate(body, dbDown) ==
    /\ req.pc = "handler" /\ req.op = "create"
    /\ LET r == routeCreateItem(items, users, nextItemId, req.user, body, now, dbDown)
       IN  /\ req' = [req EXCEPT !.pc = "done", !.body = body, !.resp = r.resp]
           /\ items' = r.items
           /\ nextItemId' = r.nextId
    /\ UNCHANGED <<users, graveyard, nextUserId, now, nreq, peer, pureVars>>

HandleGet(idParam, dbDown) ==
    /\ req.pc = "handler" /\ req.op = "get"
    /\ req' = [req EXCEPT !.pc = "done", !.idParam = idParam,
                          !.resp = routeGetItem(items, req.user, idParam, dbDown)]
    /\ UNCHANGED <<dbVars, now, nreq, peer, pureVars>>

HandleUpdate(idParam, body, dbDown) ==
    /\ req.pc = "handler" /\ req.op = "update"
    /\ LET r == routeUpdateItem(items, req.user, idParam, body, now, dbDown)
       IN  /\ req' = [req EXCEPT !.pc = "done", !.idParam = idParam, !.body = body,
                                 !.resp = r.resp]
           /\ items' = r.items
    /\ UNCHANGED <<users, graveyard, nextUserId, nextItemId, now, nreq, peer, pureVars>>

HandleDelete(idParam, dbDown) ==
    /\ req.pc = "handler" /\ req.op = "delete"
    /\ LET r == routeDeleteItem(items, req.user, idParam, dbDown)
       IN  /\ req' = [req EXCEPT !.pc = "done", !.idParam = idParam, !.resp = r.resp]
           /\ items' = r.items
    /\ UNCHANGED <<users, graveyard, nextUserId, nextItemId, now, nreq, peer, pureVars>>

\* register, up to the lookup of the email: the request after it
registerLookup(us, body, dbDown) ==
    LET validatedData == createUserSchema(body)
        existingUser == userFindByEmail(us, body.v.email, dbDown)
        r == [IdleReq EXCEPT !.op = "register", !.body = body]
    IN  IF ~validatedData.ok
        THEN [r EXCEPT !.pc = "done", !.resp = ErrorResponse(validatedData)]
        ELSE IF ~existingUser.ok
        THEN [r EXCEPT !.pc = "done", !.resp = ErrorResponse(existingUser)]
        ELSE IF existingUser.value # NoUser
        THEN [r EXCEPT !.pc = "done",
                       !.resp = ErrorBody(statusCode("ConflictError"), "ConflictError",
                                          "User with this email already exists")]
        ELSE [r EXCEPT !.pc = "insert"]

\* register, from the hashing of the password on: the request and the table after it
registerCreate(us, nextId, r, t, dbDown) ==
    LET c == userCreate(us, nextId, r.body.v.email, hashPassword(r.body.v.password), t, dbDown)
    IN  [users |-> c.users,
         nextId |-> c.nextId,
         req |-> IF ~c.res.ok
                 THEN [r EXCEPT !.pc = "done", !.resp = ErrorResponse(c.res)]
                 ELSE [r EXCEPT !.pc = "done",
                          !.resp = [NoResp EXCEPT
                              !.status = 201,
                              !.message = "User registered successfully",
                              !.user = c.res.value,
                              !.tokens = generateTokens(c.res.value.id, c.res.value.email, t)]]]

RegisterLookup(limit, body, dbDown) ==
    /\ Receive("register", limit)
    /\ req' = registerLookup(users, body, dbDown)
    /\ UNCHANGED <<dbVars, now, peer, pureVars>>

RegisterInsert(dbDown) ==
    /\ req.pc = "insert"
    /\ LET c == registerCreate(users, nextUserId, req, now, dbDown)
       IN  /\ users' = c.users
           /\ nextUserId' = c.nextId
           /\ req' = c.req
    /\ UNCHANGED <<graveyard, items, nextItemId, now, nreq, peer, pureVars>>

\* POST /api/auth/login
Login(limit, body, dbDown) ==
    /\ req.pc \in {"idle", "done"}
    /\ nreq < limit
    /\ nreq' = nreq + 1
    /\ req' = [IdleReq EXCEPT !.op = "login", !.body = body, !.pc = "done",
                              !.resp = routeLogin(users, body, now, dbDown)]
    /\ UNCHANGED <<dbVars, now, peer, pureVars>>

\* a second register request, served while the first is in flight
PeerLookup(limit, body, dbDown) ==
    /\ peer.pc \in {"idle", "done"}
    /\ nreq < limit
    /\ nextUserId + (IF req.pc = "insert" THEN 1 ELSE 0) <= MaxUsers
    /\ nreq' = nreq + 1
    /\ peer' = registerLookup(users, body, dbDown)
    /\ UNCHANGED <<dbVars, now, req, pureVars>>

PeerInsert(dbDown) ==
    /\ peer.pc = "insert"
    /\ LET c == registerCreate(users, nextUserId, peer, now, dbDown)
       IN  /\ users' = c.users
           /\ nextUserId' = c.nextId
           /\ peer' = c.req
    /\ UNCHANGED <<graveyard, items, nextItemId, now, nreq, req, pureVars>>

\* a user row is deleted in the database; ON DELETE CASCADE removes its items
\* withAuth for a second request, an update, that is served at the same time
PeerAuthenticate(limit, header, dbDown) ==
    /\ peer.pc \in {"idle", "done"}
    /\ nreq < limit
    /\ nreq' = nreq + 1
    /\ LET user == authenticate(header, users, now, dbDown)
       IN  peer' = IF user.ok
                   THEN [IdleReq EXCEPT !.op = "update", !.header = header,
                                        !.pc = "handler", !.user = user.value]
                   ELSE [IdleReq EXCEPT !.op = "update", !.header = header,
                                        !.pc = "done", !.resp = withAuthRejection(user)]
    /\ UNCHANGED <<dbVars, now, req, pureVars>>

\* PUT /api/grocery-items/[id] of the second request
PeerHandleUpdate(idParam, body, dbDown) ==
    /\ peer.pc = "handler" /\ peer.op = "update"
    /\ LET r == routeUpdateItem(items, peer.user, idParam, body, now, dbDown)
       IN  /\ peer' = [peer EXCEPT !.pc = "done", !.idParam = idParam, !.body = body,
                                   !.resp = r.resp]
           /\ items' = r.items
    /\ UNCHANGED <<users, graveyard, nextUserId, nextItemId, now, nreq, req, pureVars>>

DeleteUserRow(id) ==
    /\ \E u \in users : u.id = id
    /\ users' = {u \in users : u.id # id}
    /\ graveyard' = graveyard \cup
          {[id |-> u.id, email |-> u.email, createdAt |-> u.createdAt, deletedAt |-> now] :
              u \in {v \in users : v.id = id}}
    /\ items' = {i \in items : i.userId # id}
    /\ UNCHANGED <<nextUserId, nextItemId, now, req, nreq, peer, pureVars>>

Tick(limit) ==
    /\ now < limit
    /\ now' = now + 1
    /\ UNCHANGED <<dbVars, req, nreq, peer, pureVars>>

(***************************************************************************)
(* Inputs of the requests                                                  *)
(***************************************************************************)
Milk == <<"M", "i", "l", "k">>
Eggs == <<"E", "g", "g", "s">>
Tea == <<"T", "e", "a">>
Dairy == <<"D", "a", "i", "r", "y">>
Shop == <<"S", "h", "o", "p">>
Skim == <<"s", "k", "i", "m">>

RegisterBodies ==
    {Obj({"email", "password"}, [BlankFields EXCEPT !.email = e, !.password = Password1]) :
        e \in Emails}

CreateInputs ==
    {Obj({"name"}, [BlankFields EXCEPT !.name = Milk]),
     Obj({"name", "quantity", "store", "category", "notes"},
         [BlankFields EXCEPT !.name = Eggs, !.quantity = 2, !.store = Shop,
                             !.category = Dairy, !.notes = Skim]),
     Obj({"name"}, BlankFields)}

Patches ==
    {EmptyObj,
     Obj({"quantity"}, [BlankFields EXCEPT !.quantity = 3]),
     Obj({"store"}, [BlankFields EXCEPT !.store = Shop]),
     Obj({"name", "isPurchased"}, [BlankFields EXCEPT !.name = Tea, !.isPurchased = TRUE])}

IdParams == {<<"1">>, <<"2">>, <<"x">>}

Queries ==
    {Query({}, BlankQuery),
     Query({"category", "isPurchased"},
           [BlankQuery EXCEPT !.category = Dairy, !.isPurchased = <<"n", "o">>]),
     Query({"search", "isPurchased"},
           [BlankQuery EXCEPT !.search = <<"K">>, !.isPurchased = <<"t", "r", "u", "e">>]),
     Query({"store"}, [BlankQuery EXCEPT !.store = Shop])}

\* the access token a login of user u at time t returns
AccessToken(u, t) == generateTokens(u.id, u.email, t).accessToken
RefreshToken(u, t) == generateTokens(u.id, u.email, t).refreshToken

\* the headers of clients that have just logged in, and of one that sends none
FreshHeaders == {Bearer(AccessToken(u, now)) : u \in users} \cup {NoHeader}

(***************************************************************************)
(* Spec: the item routes, called by clients holding current tokens         *)
(***************************************************************************)
Next ==
    \/ \E h \in FreshHeaders : Authenticate(ItemOps, MaxRequests, h, FALSE)
    \/ \E q \in Queries : HandleList(q, FALSE)
    \/ \E b \in CreateInputs : HandleCreate(b, FALSE)
    \/ \E id \in IdParams : HandleGet(id, FALSE)
    \/ \E id \in IdParams, b \in Patches : HandleUpdate(id, b, FALSE)
    \/ \E id \in IdParams : HandleDelete(id, FALSE)
    \/ \E b \in RegisterBodies : RegisterLookup(MaxRequests, b, FALSE)
    \/ RegisterInsert(FALSE)
    \/ Tick(MaxItemTime)

Spec == Init /\ [][Next]_vars

(***************************************************************************)
(* SpecList: items are created and listed                                  *)
(***************************************************************************)
NextList ==
    \/ \E h \in FreshHeaders : Authenticate({"create", "list"}, MaxListRequests, h, FALSE)
    \/ \E q \in Queries : HandleList(q, FALSE)
    \/ \E b \in CreateInputs : HandleCreate(b, FALSE)
    \/ \E b \in RegisterBodies : RegisterLookup(MaxListRequests, b, FALSE)
    \/ RegisterInsert(FALSE)
    \/ Tick(MaxItemTime)

SpecList == Init /\ [][NextList]_vars

(***************************************************************************)
(* Ownership isolation                                                     *)
(***************************************************************************)
\* the request that has just been answered named, by its path id, an item of
\* another user than the caller
CrossOwnerDone ==
    /\ req.pc = "done"
    /\ req.user # NoUser
    /\ ~parseInt(req.idParam).nan
    /\ \E i \in items : i.id = parseInt(req.idParam).val /\ i.userId # req.user.id

\* C1: a get, an update (with any patch the validation accepts) and a delete of
\* another user's item each fail with NotFoundError.
C1_CrossOwnerIsNotFound ==
    (/\ CrossOwnerDone
     /\ req.op \in {"get", "update", "delete"}
     /\ req.op = "update" => updateGroceryItemSchema(req.body).ok)
        => req.resp.kind = "NotFoundError"

\* C2: an update or a delete that names another user's item leaves the item
\* table as it was, so the owner reads the item with every field, updatedAt
\* included, unchanged.
C2_CrossOwnerWriteChangesNothing ==
    [][(/\ req.pc = "handler"
        /\ req.op \in {"update", "delete"}
        /\ req'.pc = "done"
        /\ ~parseInt(req'.idParam).nan
        /\ \E i \in items : i.id = parseInt(req'.idParam).val /\ i.userId # req.user.id)
          => /\ items' = items
             /\ \A i \in items : i.id = parseInt(req'.idParam).val =>
                   getItem(items', i.id, i.userId, FALSE) = Ok(toGroceryItemResponse(i))]_vars

\* a patch that would have changed the item, and a delete, were answered for
\* another user's item at a later time than the item was written
C2_Witness ==
    /\ CrossOwnerDone
    /\ \/ req.op = "delete"
       \/ req.op = "update" /\ "quantity" \in req.body.keys
    /\ \E i \in items : i.id = parseInt(req.idParam).val /\ i.updatedAt < now

\* the items of a user, as the only rows of the table
OwnRows(its, userId) == {i \in its : i.userId = userId}

\* the answer the route of the request gives on the item table its
RouteAnswer(its, r, t) ==
    CASE r.op = "get" -> routeGetItem(its, r.user, r.idParam, FALSE)
      [] r.op = "update" -> routeUpdateItem(its, r.user, r.idParam, r.body, t, FALSE).resp
      [] r.op = "delete" -> routeDeleteItem(its, r.user, r.idParam, FALSE).resp

\* C3: what a user is answered by GET, PUT and DELETE /api/grocery-items/{id}
\* (status and body) is what the same request is answered on the table without
\* the other users' rows: an item owned by another answers as no item at all.
C3_OthersItemsAreInvisible ==
    [][(/\ req.pc = "handler"
        /\ req.op \in {"get", "update", "delete"}
        /\ req'.pc = "done")
          => ClientView(req'.resp)
               = ClientView(RouteAnswer(OwnRows(items, req.user.id), req', now))]_vars

\* a user asked for an existing item of another user and was answered 404
C3_Witness ==
    /\ CrossOwnerDone
    /\ req.op = "get"
    /\ req.resp.kind = "NotFoundError"
    /\ req.resp.error = "Grocery item not found"

\* C4: the list a user is answered holds only items of that user, whatever the
\* filters, and all of them when the query has no filter.
C4_ListIsScopedToOwner ==
    (req.pc = "done" /\ req.op = "list" /\ req.resp.status = 200) =>
        LET got == {req.resp.items[k] : k \in 1..Len(req.resp.items)}
            own == {toGroceryItemResponse(i) : i \in OwnRows(items, req.user.id)}
        IN  /\ got \subseteq own
            /\ req.resp.count = Cardinality(got)
            /\ req.query.keys = {} => got = own

\* a user listed their items, got one, while the table held an item of another user
C4_Witness ==
    /\ req.pc = "done"
    /\ req.op = "list"
    /\ req.resp.status = 200
    /\ req.resp.count >= 1
    /\ \E i \in items : i.userId # req.user.id
    /\ \E i \in items : i.userId = req.user.id

(***************************************************************************)
(* SpecAuth: the authentication middleware, called with every kind of      *)
(* header, while accounts are removed, time passes and the database fails  *)
(***************************************************************************)
Garbage == "not.a.jwt"

\* the tokens login and register have handed out: for every account that exists
\* or existed, one pair per instant of its life so far
IssuedTokens ==
    UNION {UNION {{AccessToken(u, t), RefreshToken(u, t)} : t \in u.createdAt..now} :
              u \in users}
      \cup UNION {UNION {{AccessToken(g, t), RefreshToken(g, t)} :
                            t \in g.createdAt..g.deletedAt} : g \in graveyard}

\* the tokens a client can make up: signed with a secret of its own, or no JWT at all
ForgedTokens ==
    {JwtSign(u.id, u.email, OtherSecret, jwtExpiresIn, now) : u \in users} \cup {Garbage}

\* a token for an id no account ever had, signed with the server secret
StrayTokens == {JwtSign(MaxUsers + 1, EmailA, jwtSecret, refreshTokenExpiresIn, now)}

\* header values that are not "Bearer <token>"
MalformedHeaders ==
    {Header(<<>>), Header(<<Garbage>>), Header(<<"B", "a", "s", "i", "c", " ", Garbage>>),
     Header(BearerWord \o <<" ">>), Header(BearerWord \o <<" ", Garbage, " ", "x">>)}

AuthHeaders ==
    {Bearer(t) : t \in IssuedTokens \cup ForgedTokens \cup StrayTokens}
      \cup MalformedHeaders \cup {NoHeader}

AuthPatches == {Obj({"isPurchased"}, [BlankFields EXCEPT !.isPurchased = TRUE])}
AuthIdParams == {<<"1">>}
AuthCreateInputs == {Obj({"name"}, [BlankFields EXCEPT !.name = Milk])}
AuthQueries == {Query({}, BlankQuery)}

NextAuth ==
    \/ \E h \in AuthHeaders, dbDown \in BOOLEAN :
          Authenticate(ItemOps, MaxAuthRequests, h, dbDown)
    \/ \E q \in AuthQueries : HandleList(q, FALSE)
    \/ \E b \in AuthCreateInputs : HandleCreate(b, FALSE)
    \/ \E id \in AuthIdParams : HandleGet(id, FALSE)
    \/ \E id \in AuthIdParams, b \in AuthPatches : HandleUpdate(id, b, FALSE)
    \/ \E id \in AuthIdParams : HandleDelete(id, FALSE)
    \/ \E b \in RegisterBodies : RegisterLookup(MaxAuthRequests, b, FALSE)
    \/ RegisterInsert(FALSE)
    \/ \E id \in 1..MaxUsers : DeleteUserRow(id)
    \/ Tick(MaxItemTime)

SpecAuth == Init /\ [][NextAuth]_vars

(***************************************************************************)
(* The authentication middleware                                           *)
(***************************************************************************)
\* this step receives a request for a protected route and runs withAuth up to
\* the call of the handler
Arrives ==
    /\ req.pc \in {"idle", "done"}
    /\ req'.op \in ItemOps
    /\ nreq' = nreq + 1

\* what the header of the arriving request carries, by the steps of authenticate
Credentials(header) ==
    LET token == extractTokenFromHeader(header)
        payload == verifyToken(token.value, now)
        rows == {u \in users : u.id = payload.value.userId}
    IN  [extracted |-> token.ok, verified |-> token.ok /\ payload.ok,
         found |-> token.ok /\ payload.ok /\ rows # {},
         subject |-> payload.value.userId,
         rows |-> rows,
         cause |-> IF ~token.ok THEN token.error
                   ELSE IF ~payload.ok THEN payload.error
                   ELSE IF rows = {} THEN "User not found" ELSE ""]

\* C5: a handler of a protected route starts only in the step in which
\* authenticate succeeded for its request, with the user that was resolved from
\* the token; an answer of a handler and a write to the item table come from a
\* handler that was started so.
C5_HandlerRunsAfterAuthenticate ==
    [][/\ (req'.pc = "handler" /\ req.pc # "handler") =>
             /\ Arrives
             /\ Credentials(req'.header).found
             /\ \A u \in Credentials(req'.header).rows : req'.user = userView(u)
       /\ (req'.pc = "done" /\ req'.op \in ItemOps /\ req' # req /\ req'.resp.status # 401) =>
             /\ req.pc = "handler"
             /\ req'.op = req.op
             /\ req'.user = req.user
       /\ (nextItemId' # nextItemId \/ (items' # items /\ users' = users)) =>
             req.pc = "handler"]_vars

\* a handler has answered a request whose token had been verified
C5_Witness ==
    /\ req.pc = "done"
    /\ req.op = "create"
    /\ req.resp.status = 201
    /\ req.user # NoUser
    /\ extractTokenFromHeader(req.header).ok

\* C6: a request for a protected route whose authentication fails at any step,
\* a failure of the database during the lookup of the user included, is answered
\* with 401 and its handler is not started.
C6_FailedAuthenticationIs401 ==
    [][Arrives =>
          /\ ~Credentials(req'.header).found => req'.pc = "done"
          /\ req'.pc = "done" =>
                /\ req'.resp.status = 401
                /\ req'.resp.item = NoView /\ req'.resp.items = <<>>
                /\ UNCHANGED dbVars]_vars

\* the lookup of the user failed in the database and the request was answered 401
C6_Witness ==
    /\ req.pc = "done"
    /\ req.op \in ItemOps
    /\ req.resp.status = 401
    /\ req.resp.error = "Authentication failed"
    /\ Credentials(req.header).verified

C8_StaleSubjectIsRejected ==
    [][Arrives =>
          /\ (Credentials(req'.header).verified /\ ~Credentials(req'.header).found) =>
                /\ req'.pc = "done"
                /\ req'.resp.kind = "AuthenticationError"
                /\ req'.resp.error \in {"User not found", "Authentication failed"}
          /\ req'.pc = "handler" =>
                /\ req'.user.id \notin {g.id : g \in graveyard}
                /\ Credentials(req'.header).subject \notin {g.id : g \in graveyard}]_vars

\* a token issued to a user who has been removed since was presented before its
\* expiry, and rejected
C8_Witness ==
    /\ req.pc = "done"
    /\ req.op \in ItemOps
    /\ req.resp.error = "User not found"
    /\ Credentials(req.header).verified
    /\ Credentials(req.header).subject \in {g.id : g \in graveyard}

(***************************************************************************)
(* SpecVerify: verifyToken applied to every token text and every time      *)
(***************************************************************************)
VerifyTokens == DOMAIN JwtTexts \cup {Garbage, ""}

InitVerify ==
    /\ DbInit
    /\ hdr = NoHeader
    /\ tok \in VerifyTokens
    /\ vnow \in Times
    /\ out = Fail("Pending", "", "")

VerifyStep ==
    /\ out.kind = "Pending"
    /\ out' = verifyToken(tok, vnow)
    /\ UNCHANGED <<dbVars, now, req, peer, nreq, hdr, tok, vnow, txn>>

NextVerify == VerifyStep

SpecVerify == InitVerify /\ [][NextVerify]_vars

Pieces == {BearerWord, <<"b", "e", "a", "r", "e", "r">>, <<" ">>, <<"t">>, <<"B">>}

RECURSIVE Assemble(_)
Assemble(pieces) ==
    IF pieces = <<>> THEN <<>> ELSE Head(pieces) \o Assemble(Tail(pieces))

HeaderValues == {Assemble(ps) : ps \in UNION {[1..n -> Pieces] : n \in 0..MaxPieces}}

InitHeader ==
    /\ DbInit
    /\ hdr \in {NoHeader} \cup {Header(v) : v \in HeaderValues}
    /\ tok = ""
    /\ vnow = 0
    /\ out = Fail("Pending", "", "")

ExtractStep ==
    /\ out.kind = "Pending"
    /\ out' = extractTokenFromHeader(hdr)
    /\ UNCHANGED <<dbVars, now, req, peer, nreq, hdr, tok, vnow, txn>>

NextHeader == ExtractStep

SpecHeader == InitHeader /\ [][NextHeader]_vars

\* the value is the word Bearer, one space, and one token without a space
IsBearerShape(v) ==
    /\ Len(v) > Len(BearerWord) + 1
    /\ SubSeq(v, 1, Len(BearerWord)) = BearerWord
    /\ v[Len(BearerWord) + 1] = " "
    /\ \A k \in (Len(BearerWord) + 2)..Len(v) : v[k] # " "

\* C10 (as claimed): 'Authorization header missing' for no header (an empty
\* value counted as none), 'Invalid authorization header format' for every
\* value that is not Bearer, a space and one token, and that token otherwise.
C10_ExtractAsClaimed ==
    out.kind # "Pending" =>
        /\ (~hdr.present \/ hdr.value = <<>>)
              => out = Fail("AuthenticationError", "Authorization header missing", "")
        /\ (hdr.present /\ hdr.value # <<>> /\ ~IsBearerShape(hdr.value))
              => out = Fail("AuthenticationError", "Invalid authorization header format", "")
        /\ (hdr.present /\ IsBearerShape(hdr.value))
              => out = Ok(Flatten(SubSeq(hdr.value, Len(BearerWord) + 2, Len(hdr.value))))

(***************************************************************************)
(* SpecAccounts: registration, with a second registration in flight, and   *)
(* login; a logged-in user lists items                                     *)
(***************************************************************************)
Password2 == <<"h", "u", "n", "t", "e", "r", "2", "2">>
BadEmail == <<"n", "o", "p", "e">>

AccountBodies ==
    {Obj({"email", "password"}, [BlankFields EXCEPT !.email = e, !.password = pw]) :
        e \in Emails, pw \in {Password1, Password2}}

LoginBodies ==
    AccountBodies \cup
      {Obj({"email", "password"}, [BlankFields EXCEPT !.email = BadEmail, !.password = Password1]),
       Obj({"email", "password"}, [BlankFields EXCEPT !.email = EmailA])}

NextAccounts ==
    \/ \E b \in AccountBodies : RegisterLookup(MaxAccountRequests, b, FALSE)
    \/ RegisterInsert(FALSE)
    \/ \E b \in AccountBodies : PeerLookup(MaxAccountRequests, b, FALSE)
    \/ PeerInsert(FALSE)
    \/ \E b \in LoginBodies : Login(MaxAccountRequests, b, FALSE)
    \/ \E h \in FreshHeaders : Authenticate({"list"}, MaxAccountRequests, h, FALSE)
    \/ \E q \in AuthQueries : HandleList(q, FALSE)

SpecAccounts == Init /\ [][NextAccounts]_vars

(***************************************************************************)
(* Accounts                                                                *)
(***************************************************************************)
\* this step receives a register request in the first slot
RegisterArrives ==
    /\ req.pc \in {"idle", "done"}
    /\ req'.op = "register"
    /\ nreq' = nreq + 1
    /\ req' # req
    /\ peer' = peer

\* the rows of the users table with the email
RowsOf(us, email) == {u \in us : u.email = email}

\* C11: a register request for an email without a row inserts the row and is
\* answered 201; a later register request for that email, whatever its
\* password, is answered ConflictError (409) and leaves the users table, the
\* stored hash included, as it was.
C11_SecondRegistrationIsConflict ==
    [][/\ (RegisterArrives /\ createUserSchema(req'.body).ok) =>
             IF RowsOf(users, req'.body.v.email) = {}
             THEN req'.pc = "insert" /\ users' = users
             ELSE /\ req'.pc = "done"
                  /\ req'.resp.kind = "ConflictError"
                  /\ req'.resp.status = 409
                  /\ req'.resp.user = NoUser
                  /\ users' = users /\ nextUserId' = nextUserId
       /\ (req.pc = "insert" /\ req'.pc = "done" /\ RowsOf(users, req.body.v.email) = {}) =>
             /\ req'.resp.status = 201
             /\ req'.resp.user.email = req.body.v.email
             /\ \E u \in users' :
                   /\ users' = users \cup {u}
                   /\ u.email = req.body.v.email
                   /\ u.passwordHash = hashPassword(req.body.v.password)]_vars

\* the second registration of an email, with another password than the first,
\* was answered ConflictError; no other registration was in flight
C11_Witness ==
    /\ req.pc = "done"
    /\ req.op = "register"
    /\ req.resp.kind = "ConflictError"
    /\ peer.pc = "idle"
    /\ Cardinality(RowsOf(users, req.body.v.email)) = 1
    /\ \A u \in RowsOf(users, req.body.v.email) :
          u.passwordHash # hashPassword(req.body.v.password)

\* C12: when two register requests for one email have both passed the lookup
\* before either inserts, exactly one row with that email is created and the
\* request whose insert meets the other's row is answered ConflictError
\* (409), not with a database error.
C12_RaceLoserIsConflict ==
    [][/\ (req.pc = "insert" /\ req'.pc = "done" /\ RowsOf(users, req.body.v.email) # {}) =>
             /\ Cardinality(RowsOf(users', req.body.v.email)) = 1
             /\ req'.resp.kind = "ConflictError"
             /\ req'.resp.status = statusCode("ConflictError")
       /\ (peer.pc = "insert" /\ peer'.pc = "done" /\ RowsOf(users, peer.body.v.email) # {}) =>
             /\ Cardinality(RowsOf(users', peer.body.v.email)) = 1
             /\ peer'.resp.kind = "ConflictError"
             /\ peer'.resp.status = statusCode("ConflictError")]_vars

\* the part of C12 that the code keeps: the losing insert adds no row, so the
\* email never has two rows
C12_OneRowPerEmail ==
    \A u, v \in users : u.email = v.email => u = v

\* this step answers a login request
LoginArrives ==
    /\ req.pc \in {"idle", "done"}
    /\ req'.op = "login"
    /\ nreq' = nreq + 1
    /\ req' # req
    /\ peer' = peer

\* the body's password is not the password of any row with the body's email:
\* there is no such row, or its hash is that of another password
BadCredentials(us, body) ==
    \A u \in RowsOf(us, body.v.email) : u.passwordHash # hashPassword(body.v.password)

\* C13: a login whose email has no row and a login whose email has a row with
\* another password are answered alike: kind AuthenticationError, message
\* 'Invalid email or password', the status of that kind, and no user or
\* tokens.  A body that fails the shape validation is answered with the
\* validation error before any row is read, so neither answer depends on
\* whether the email is registered.
C13_UnknownEmailLooksLikeWrongPassword ==
    [][LoginArrives =>
          IF ~loginSchema(req'.body).ok
          THEN req'.resp = ErrorResponse(loginSchema(req'.body))
          ELSE BadCredentials(users, req'.body) =>
                  req'.resp = ErrorBody(statusCode("AuthenticationError"),
                                        "AuthenticationError", "Invalid email or password")]_vars

\* a login with a registered email and another password than the stored one
\* was refused
C13_Witness ==
    /\ req.pc = "done"
    /\ req.op = "login"
    /\ req.resp.error = "Invalid email or password"
    /\ RowsOf(users, req.body.v.email) # {}
    /\ BadCredentials(users, req.body)

\* a login with an email that has no row was refused
C13_WitnessUnknownEmail ==
    /\ req.pc = "done"
    /\ req.op = "login"
    /\ req.resp.error = "Invalid email or password"
    /\ RowsOf(users \cup graveyard, req.body.v.email) = {}

\* C14: the user of a register or login response and the user that withAuth
\* hands to a handler have no passwordHash field, and none of their fields
\* holds the hash of a stored row.
C14_NoHashLeavesTheService ==
    \A user \in {req.resp.user, peer.resp.user, req.user} :
        /\ DOMAIN user = {"id", "email", "createdAt", "updatedAt"}
        /\ \A u \in users : u.passwordHash \notin {user.email}

\* a login was answered 200 with the user of a row that holds a hash, and a
\* protected handler has run for an authenticated user
C14_Witness ==
    /\ req.pc = "done"
    /\ req.op = "login"
    /\ req.resp.status = 200
    /\ \E u \in users : u.id = req.resp.user.id /\ u.passwordHash = hashPassword(req.body.v.password)

\* a protected handler has answered a request of an authenticated user
C14_WitnessHandler ==
    /\ req.pc = "done"
    /\ req.op = "list"
    /\ req.resp.status = 200
    /\ \E u \in users : u.id = req.user.id

(***************************************************************************)
(* SpecFields: items are created, read, patched and searched with inputs   *)
(* at the limits of the schemas                                            *)
(***************************************************************************)
\* a name of n characters
NameOfLength(n) == [k \in 1..n |-> "a"]
Market == <<"M", "a", "r", "t">>

FieldCreateInputs ==
    {Obj({"name"}, [BlankFields EXCEPT !.name = Milk]),
     Obj({"name", "quantity", "store", "category", "notes"},
         [BlankFields EXCEPT !.name = Eggs, !.quantity = 2, !.store = Shop,
                             !.category = Dairy, !.notes = Skim]),
     Obj({"name", "store", "category"},
         [BlankFields EXCEPT !.name = Tea, !.store = Market, !.category = Dairy]),
     Obj({"name"}, [BlankFields EXCEPT !.name = NameOfLength(255)]),
     Obj({"name"}, [BlankFields EXCEPT !.name = NameOfLength(256)]),
     Obj({"name"}, BlankFields),
     Obj({"name", "quantity"}, [BlankFields EXCEPT !.name = Tea, !.quantity = 0]),
     Obj({"name", "quantity"}, [BlankFields EXCEPT !.name = Tea, !.quantity = -5])}

FieldPatches ==
    {EmptyObj,
     Obj({"name", "store"}, [BlankFields EXCEPT !.name = Tea, !.store = Shop]),
     Obj({"quantity"}, [BlankFields EXCEPT !.quantity = 3]),
     Obj({"category", "notes", "isPurchased"},
         [BlankFields EXCEPT !.category = Dairy, !.notes = Skim, !.isPurchased = TRUE])}

FieldQueries ==
    {Query({}, BlankQuery),
     Query({"store", "category"}, [BlankQuery EXCEPT !.store = Shop, !.category = Dairy]),
     Query({"isPurchased"}, [BlankQuery EXCEPT !.isPurchased = <<"t", "r", "u", "e">>]),
     Query({"search"}, [BlankQuery EXCEPT !.search = <<"K">>]),
     Query({"search"}, [BlankQuery EXCEPT !.search = <<"%">>]),
     Query({"search"}, [BlankQuery EXCEPT !.search = <<"_">>]),
     Query({"search"}, [BlankQuery EXCEPT !.search = <<"g", "_">>])}

NextFields ==
    \/ \E h \in FreshHeaders :
          Authenticate({"create", "get", "update"}, MaxFieldRequests, h, FALSE)
    \/ \E b \in FieldCreateInputs : HandleCreate(b, FALSE)
    \/ \E id \in {<<"1">>, <<"2">>} : HandleGet(id, FALSE)
    \/ \E id \in {<<"1">>, <<"2">>}, b \in FieldPatches : HandleUpdate(id, b, FALSE)
    \/ \E b \in RegisterBodies : RegisterLookup(MaxFieldRequests, b, FALSE)
    \/ RegisterInsert(FALSE)
    \/ Tick(MaxItemTime)

SpecFields == Init /\ [][NextFields]_vars

(***************************************************************************)
(* SpecSearch: items are created, patched and listed under filters         *)
(***************************************************************************)
NextSearch ==
    \/ \E h \in FreshHeaders :
          Authenticate({"create", "update", "list"}, MaxFieldRequests, h, FALSE)
    \/ \E b \in {c \in FieldCreateInputs : Len(c.v.name) < 255} : HandleCreate(b, FALSE)
    \/ \E b \in FieldPatches : HandleUpdate(<<"1">>, b, FALSE)
    \/ \E q \in FieldQueries : HandleList(q, FALSE)
    \/ \E b \in RegisterBodies : RegisterLookup(MaxFieldRequests, b, FALSE)
    \/ RegisterInsert(FALSE)

SpecSearch == Init /\ [][NextSearch]_vars

(***************************************************************************)
(* Fields of items                                                         *)
(***************************************************************************)
\* this step answers the request of the given kind that was in its handler
Answers(op) == req.pc = "handler" /\ req.op = op /\ req'.pc = "done"

\* the step replaces the caller's row r by n, which has the patch's value in
\* each of the given columns the patch names and r's value in the others
MergesInto(r, n, columns) ==
    /\ r.id = parseInt(req'.idParam).val
    /\ r.userId = req.user.id
    /\ items' = (items \ {r}) \cup {n}
    /\ n.id = r.id /\ n.userId = r.userId /\ n.createdAt = r.createdAt
    /\ \A k \in columns :
          n[k] = IF k \in req'.body.keys THEN req'.body.v[k] ELSE r[k]

\* C15: a successful update merges the patch into the row: each of name,
\* quantity, store, category, notes and isPurchased that the patch names takes
\* the patch's value, each one it does not name keeps its value, and id,
\* userId and createdAt are kept.
C15_UpdateIsMerge ==
    [][(Answers("update") /\ req'.resp.status = 200) =>
          \E r \in items, n \in items' : MergesInto(r, n, UpdateKeys)]_vars

\* what the code keeps of C15: the merge of every column but store
C15_UpdateMergesAllButStore ==
    [][(Answers("update") /\ req'.resp.status = 200) =>
          \E r \in items, n \in items' :
              /\ MergesInto(r, n, UpdateKeys \ {"store"})
              /\ n.store = r.store
              /\ req'.resp.item = toGroceryItemResponse(n)]_vars

\* this step answers an update whose path id is a number and whose body is {}
EmptyPatchAnswered ==
    /\ Answers("update")
    /\ ~parseInt(req'.idParam).nan
    /\ req'.body.keys = {}

\* C16: an update with an empty patch fails with ValidationError, whatever
\* the id and the caller, and changes no row.
C16_EmptyPatchIsValidationError ==
    [][EmptyPatchAnswered =>
          /\ req'.resp.kind = "ValidationError"
          /\ items' = items]_vars

\* what the code keeps of C16: the empty patch is refused by the schema, with
\* a plain Error that the route answers as an internal error, and no row changes
C16_EmptyPatchIsRefused ==
    [][EmptyPatchAnswered =>
          /\ req'.resp = ErrorBody(500, "Error", "Internal server error")
          /\ items' = items]_vars

\* a field of a response object; one that the object lacks has no value
Field(view, k) == IF k \in DOMAIN view THEN view[k] ELSE NULL

\* the view has the row's value in each of the given fields, and no userId
Shows(view, row, fields) ==
    /\ "userId" \notin DOMAIN view
    /\ \A k \in fields : Field(view, k) = row[k]

\* the step creates the row n for the caller and answers with a view of n
\* over the given fields, in which each of them the body supplies has the
\* body's value
CreatesAndShows(n, fields) ==
    /\ n \notin items
    /\ items' = items \cup {n}
    /\ n.userId = req.user.id
    /\ Shows(req'.resp.item, n, fields)
    /\ \A k \in req'.body.keys \cap fields : Field(req'.resp.item, k) = req'.body.v[k]

\* the step answers with a view of the caller's row with the path's id
GetsAndShows(r, fields) ==
    /\ r.id = parseInt(req'.idParam).val
    /\ r.userId = req.user.id
    /\ Shows(req'.resp.item, r, fields)

ItemFields ==
    {"id", "name", "quantity", "store", "category", "notes", "isPurchased",
     "createdAt", "updatedAt"}

\* C17: createItem answers with the new row's id, name, quantity, store,
\* category, notes, isPurchased, createdAt and updatedAt, each supplied input
\* field with the value supplied; getItem of that id by the owner answers
\* with the same fields of the same row, so the two are equal as long as the
\* row is; neither view has the owner's id.
C17_GetReturnsWhatWasCreated ==
    [][/\ (Answers("create") /\ req'.resp.status = 201) =>
             \E n \in items' : CreatesAndShows(n, ItemFields)
       /\ (Answers("get") /\ req'.resp.status = 200) =>
             \E r \in items : GetsAndShows(r, ItemFields)]_vars

\* what the code keeps of C17: the same with store left out of both views
C17_GetReturnsWhatWasCreatedButStore ==
    [][/\ (Answers("create") /\ req'.resp.status = 201) =>
             \E n \in items' :
                 /\ CreatesAndShows(n, ItemFields \ {"store"})
                 /\ n.store = NULL
                 /\ "store" \notin DOMAIN req'.resp.item
       /\ (Answers("get") /\ req'.resp.status = 200) =>
             \E r \in items : GetsAndShows(r, ItemFields \ {"store"})]_vars

(***************************************************************************)
(* Filters                                                                 *)
(***************************************************************************)
\* the query string has the parameter, with a value
Given(q, k) == k \in q.keys /\ q.v[k] # <<>>

\* the caller's rows that pass each of the given exact-match filters of q
Matching(q, filters) ==
    {i \in items :
        /\ i.userId = req.user.id
        /\ ("category" \in filters /\ Given(q, "category")) => i.category = q.v.category
        /\ ("store" \in filters /\ Given(q, "store")) => i.store = q.v.store
        /\ ("isPurchased" \in filters /\ Given(q, "isPurchased")) =>
              i.isPurchased = (q.v.isPurchased = <<"t", "r", "u", "e">>)}

\* the ids of the items of a list response
Listed(resp) == {resp.items[k].id : k \in 1..Len(resp.items)}

\* C18: a list without a search term returns exactly the caller's items that
\* pass every filter given (category, store, isPurchased, each an exact
\* match); a filter that is not given excludes nothing.
C18_FiltersAreConjoined ==
    [][(Answers("list") /\ req'.resp.status = 200 /\ ~Given(req'.query, "search")) =>
          /\ Listed(req'.resp) =
                {i.id : i \in Matching(req'.query, {"category", "store", "isPurchased"})}
          /\ req'.resp.count = Cardinality(Listed(req'.resp))]_vars

\* what the code keeps of C18: the same for category and isPurchased, a store
\* parameter having no effect
C18_FiltersButStoreAreConjoined ==
    [][(Answers("list") /\ req'.resp.status = 200 /\ ~Given(req'.query, "search")) =>
          /\ Listed(req'.resp) = {i.id : i \in Matching(req'.query, {"category", "isPurchased"})}
          /\ req'.resp.count = Cardinality(Listed(req'.resp))]_vars

\* the search string occurs in the text, letter case apart
Occurs(search, text) ==
    \E k \in 0..(Len(text) - Len(search)) :
        \A j \in 1..Len(search) : Lower(text[k + j]) = Lower(search[j])

\* the caller's rows in whose name or notes the search string occurs
Containing(search) ==
    {i \in items :
        /\ i.userId = req.user.id
        /\ Occurs(search, i.name) \/ (i.notes # NULL /\ Occurs(search, i.notes))}

\* this step answers a list whose only filter is a search term
SearchAnswered ==
    /\ Answers("list")
    /\ req'.resp.status = 200
    /\ Given(req'.query, "search")
    /\ req'.query.keys = {"search"}

\* C19: a search returns exactly the caller's items in whose name or notes
\* the search string occurs as it is written, letter case apart, also when it
\* has the characters % or _.
C19_SearchIsLiteralSubstring ==
    [][SearchAnswered =>
          Listed(req'.resp) = {i.id : i \in Containing(req'.query.v.search)}]_vars

\* what the code keeps of C19: the same for search strings without % and _
C19_SearchWithoutWildcardsIsSubstring ==
    [][(SearchAnswered /\ \A k \in 1..Len(req'.query.v.search) :
                             req'.query.v.search[k] \notin {"%", "_", "\\"}) =>
          Listed(req'.resp) = {i.id : i \in Containing(req'.query.v.search)}]_vars

(***************************************************************************)
(* Limits of createItem                                                    *)
(***************************************************************************)
\* the body has a name of 1 to 255 characters and no quantity below 1
WithinLimits(body) ==
    /\ "name" \in body.keys
    /\ Len(body.v.name) \in 1..255
    /\ "quantity" \in body.keys => body.v.quantity >= 1

\* C20: createItem accepts a name of up to 255 characters and refuses one of
\* 256 and the empty one; it refuses a quantity of 0 or below; an accepted
\* item has the quantity supplied, or 1 when none was.  A refused request
\* creates no row.
C20_CreateLimits ==
    [][Answers("create") =>
          IF WithinLimits(req'.body)
          THEN /\ req'.resp.status = 201
               /\ \E n \in items' :
                     /\ n \notin items
                     /\ items' = items \cup {n}
                     /\ n.name = req'.body.v.name
                     /\ n.quantity = IF "quantity" \in req'.body.keys
                                     THEN req'.body.v.quantity ELSE 1
                     /\ req'.resp.item.quantity = n.quantity
          ELSE /\ req'.resp.status \notin {200, 201}
               /\ req'.resp.error # ""
               /\ items' = items
               /\ nextItemId' = nextItemId]_vars

\* an item with a name of 255 characters and no quantity in its body was
\* created, with quantity 1
C20_Witness ==
    /\ req.pc = "done"
    /\ req.op = "create"
    /\ Len(req.body.v.name) = 255
    /\ "quantity" \notin req.body.keys
    /\ req.resp.status = 201
    /\ \E i \in items : i.id = req.resp.item.id /\ Len(i.name) = 255 /\ i.quantity = 1

\* a name of 256 characters was refused
C20_WitnessTooLong ==
    req.pc = "done" /\ req.op = "create" /\ Len(req.body.v.name) = 256 /\ req.resp.error # ""

\* a quantity below 1 was refused
C20_WitnessQuantity ==
    /\ req.pc = "done" /\ req.op = "create"
    /\ "quantity" \in req.body.keys /\ req.body.v.quantity < 1
    /\ req.resp.error # ""

(***************************************************************************)
(* Errors of the item routes                                               *)
(***************************************************************************)
\* this step answers a create or an update whose body its schema refuses
RefusedBodyAnswered ==
    \/ Answers("create") /\ ~createGroceryItemSchema(req'.body).ok
    \/ /\ Answers("update")
       /\ ~parseInt(req'.idParam).nan
       /\ ~updateGroceryItemSchema(req'.body).ok

\* C21: a request refused for its input is raised as ValidationError and
\* answered with that error's status (400) and the validation message.
C21_RefusedInputIsValidationError ==
    [][RefusedBodyAnswered =>
          /\ req'.resp.kind = "ValidationError"
          /\ req'.resp.status = statusCode("ValidationError")
          /\ req'.resp.error # "Internal server error"]_vars

\* what the code does instead: the refusal is a plain Error, which the
\* routes answer as an internal error without the validation message
C21_RefusedInputIsInternalError ==
    [][RefusedBodyAnswered =>
          /\ req'.resp = ErrorBody(500, "Error", "Internal server error")
          /\ items' = items]_vars

(***************************************************************************)
(* Deleted items                                                           *)
(***************************************************************************)
\* this step answers a get, an update with a patch of the given kind, or a
\* delete, of a path id for which the caller has no row: one that was
\* deleted, or one that never was the caller's
GoneAnswered(patchOk(_)) ==
    /\ \E op \in {"get", "update", "delete"} : Answers(op)
    /\ ~parseInt(req'.idParam).nan
    /\ parseInt(req'.idParam).val > 0
    /\ ~\E i \in items : i.id = parseInt(req'.idParam).val /\ i.userId = req.user.id
    /\ req.op = "update" => patchOk(req'.body)

\* no step brings back an id that has no row: a new row has the next id of
\* the sequence, and a list shows only ids that have a row of the caller
NoIdReturns ==
    /\ \A n \in items' : (\E i \in items : i.id = n.id) \/ n.id = nextItemId
    /\ nextItemId' >= nextItemId
    /\ (Answers("list") /\ req'.resp.status = 200) =>
          Listed(req'.resp) \subseteq {i.id : i \in items}

ValidPatch(body) == updateGroceryItemSchema(body).ok
StoredPatch(body) == ValidPatch(body) /\ UpdateFields(body) # {}

\* C22: once an item is deleted, a get, an update (with any valid patch) and
\* a delete of its id by the owner fail with NotFoundError, as they do for
\* any id without a row of the caller, and the id never shows in a list again.
C22_DeletedStaysDeleted ==
    [][/\ NoIdReturns
       /\ GoneAnswered(ValidPatch) => (req'.resp.kind = "NotFoundError" /\ items' = items)]_vars

\* what the code keeps of C22: the same for patches that name a column the
\* repository writes
C22_DeletedStaysDeletedForStoredPatches ==
    [][/\ NoIdReturns
       /\ GoneAnswered(StoredPatch) => (req'.resp.kind = "NotFoundError" /\ items' = items)]_vars

\* a delete of an item the caller has just deleted was answered NotFoundError
C22_WitnessDeletedTwice ==
    /\ req.pc = "done" /\ req.op = "delete"
    /\ req.resp.kind = "NotFoundError"
    /\ parseInt(req.idParam).val < nextItemId
    /\ ~\E i \in items : i.id = parseInt(req.idParam).val

(***************************************************************************)
(* SpecPath: the routes of one item, called with path ids of every shape   *)
(* while the database is up or down                                        *)
(***************************************************************************)
PathIdParams ==
    {<<"1">>, <<"2">>, <<"0">>, <<"x">>, <<"1", "x">>, <<"1", ".", "5">>, <<" ", "1">>,
     <<"0", "x", "1">>, <<>>}

PathPatches ==
    {EmptyObj,
     Obj({"quantity"}, [BlankFields EXCEPT !.quantity = 0]),
     Obj({"isPurchased"}, [BlankFields EXCEPT !.isPurchased = TRUE]),
     Obj({"name"}, [BlankFields EXCEPT !.name = <<" ">>])}

PathQueries ==
    {Query({}, BlankQuery),
     Query({"category"}, [BlankQuery EXCEPT !.category = NameOfLength(101)])}

NextPath ==
    \/ \E h \in FreshHeaders : Authenticate(ItemOps, MaxFieldRequests, h, FALSE)
    \/ \E b \in CreateInputs, dbDown \in BOOLEAN : HandleCreate(b, dbDown)
    \/ \E q \in PathQueries, dbDown \in BOOLEAN : HandleList(q, dbDown)
    \/ \E id \in PathIdParams, dbDown \in BOOLEAN : HandleGet(id, dbDown)
    \/ \E id \in PathIdParams, b \in PathPatches, dbDown \in BOOLEAN : HandleUpdate(id, b, dbDown)
    \/ \E id \in PathIdParams, dbDown \in BOOLEAN : HandleDelete(id, dbDown)
    \/ \E b \in RegisterBodies : RegisterLookup(MaxFieldRequests, b, FALSE)
    \/ RegisterInsert(FALSE)

SpecPath == Init /\ [][NextPath]_vars

\* this step answers a request of one of the routes of /api/grocery-items/{id}
ItemRouteAnswered == \E op \in {"get", "update", "delete"} : Answers(op)

\* the text is an integer numeral: digits, after at most one sign
IsIntegerText(text) ==
    LET u == IF text # <<>> /\ Head(text) \in {"-", "+"} THEN Tail(text) ELSE text
    IN  /\ u # <<>>
        /\ \A k \in 1..Len(u) : u[k] \in {"0", "1", "2", "3", "4", "5", "6", "7", "8", "9"}

\* the 400 response of the three routes, which no query precedes: no row
\* changes, and the answer is the same while the database is down
IsInvalidItemId(resp) ==
    /\ resp.status = 400
    /\ resp.error = "Invalid item ID"
    /\ items' = items

\* C23: GET, PUT and DELETE with a path id that is not an integer numeral are
\* answered 400 'Invalid item ID' without a query of the items.
C23_NonIntegerIdIs400 ==
    [][(ItemRouteAnswered /\ ~IsIntegerText(req'.idParam)) => IsInvalidItemId(req'.resp)]_vars

\* what the code keeps of C23: the same for the path ids that parseInt turns
\* into NaN, those without a leading numeral
C23_NaNIdIs400 ==
    [][(ItemRouteAnswered /\ parseInt(req'.idParam).nan) => IsInvalidItemId(req'.resp)]_vars

\* this step answers a request that the service's validation refuses: the
\* body or the filters by their schema, or the id by idSchema
InvalidInputAnswered ==
    \/ Answers("create") /\ ~createGroceryItemSchema(req'.body).ok
    \/ Answers("list") /\ ~groceryItemFiltersSchema(routeFilters(req'.query)).ok
    \/ /\ ItemRouteAnswered
       /\ ~parseInt(req'.idParam).nan
       /\ \/ ~idSchema(parseInt(req'.idParam).val).ok
          \/ req.op = "update" /\ ~updateGroceryItemSchema(req'.body).ok

\* C24: a request whose id or input fails the validation of the service ends
\* with the validation failure and without a query: no row changes, no id is
\* drawn, and the answer is the same whether or not the database is up and
\* whether or not the item exists or is the caller's, never NotFoundError or
\* a database error.
C24_ValidationPrecedesTheStore ==
    [][InvalidInputAnswered =>
          /\ req'.resp.kind = "Error"
          /\ req'.resp.kind \notin {"NotFoundError", "DatabaseError"}
          /\ req'.resp.items = <<>> /\ req'.resp.item = NoView
          /\ items' = items
          /\ nextItemId' = nextItemId]_vars

\* an update with a patch the schema refuses, of an id the caller has no row
\* for, ended with the validation failure
C24_Witness ==
    /\ req.pc = "done" /\ req.op = "update"
    /\ ~updateGroceryItemSchema(req.body).ok
    /\ parseInt(req.idParam).val > 0
    /\ ~\E i \in items : i.id = parseInt(req.idParam).val /\ i.userId = req.user.id
    /\ req.resp.kind = "Error"

(***************************************************************************)
(* SpecRace: two updates of one item are served at the same time           *)
(***************************************************************************)
NextRace ==
    \/ \E h \in FreshHeaders : Authenticate({"create", "update"}, MaxFieldRequests, h, FALSE)
    \/ \E b \in CreateInputs : HandleCreate(b, FALSE)
    \/ \E b \in FieldPatches : HandleUpdate(<<"1">>, b, FALSE)
    \/ \E h \in FreshHeaders : PeerAuthenticate(MaxFieldRequests, h, FALSE)
    \/ \E b \in FieldPatches : PeerHandleUpdate(<<"1">>, b, FALSE)
    \/ \E b \in RegisterBodies : RegisterLookup(MaxFieldRequests, b, FALSE)
    \/ RegisterInsert(FALSE)
    \/ Tick(MaxItemTime)

SpecRace == Init /\ [][NextRace]_vars

\* in this step the update x of an item is answered 200 after the update y of
\* the same item by the same user was, their patches naming different fields
SecondOfTwo(x, xNext, y) ==
    /\ x.pc = "handler" /\ x.op = "update"
    /\ xNext.pc = "done" /\ xNext.resp.status = 200
    /\ y.pc = "done" /\ y.op = "update" /\ y.resp.status = 200
    /\ y.user.id = x.user.id
    /\ y.idParam = xNext.idParam
    /\ y.body.keys \cap xNext.body.keys = {}

\* the row of the two updates has, in each of the given columns that one of
\* the patches names, the value of that patch
BothApplied(x, y, columns) ==
    \E n \in items' :
        /\ n.id = parseInt(x.idParam).val
        /\ \A k \in columns \cap x.body.keys : n[k] = x.body.v[k]
        /\ \A k \in columns \cap y.body.keys : n[k] = y.body.v[k]

\* the update x is in its handler while the update y, in its handler too,
\* writes the row
Overlap(x, y, yNext) ==
    /\ x.pc = "handler" /\ x.op = "update"
    /\ y.pc = "handler" /\ y.op = "update" /\ yNext.pc = "done"
    /\ x.user.id = y.user.id

\* C25: two updates of one item by its owner, served at the same time with
\* patches over different fields, both succeed, and the row then has each
\* patched field (name, quantity, store, category, notes, isPurchased) with
\* the value of its patch, in either order of the two writes.
C25_DisjointUpdatesBothApply ==
    [][/\ SecondOfTwo(req, req', peer) => BothApplied(req', peer, UpdateKeys)
       /\ SecondOfTwo(peer, peer', req) => BothApplied(peer', req, UpdateKeys)]_vars

\* what the code keeps of C25: the same for every column but store, and an
\* update that finds the other one in its handler succeeds whenever its patch
\* names a stored column and the row is the caller's
C25_DisjointStoredUpdatesBothApply ==
    [][/\ SecondOfTwo(req, req', peer) => BothApplied(req', peer, UpdateKeys \ {"store"})
       /\ SecondOfTwo(peer, peer', req) => BothApplied(peer', req, UpdateKeys \ {"store"})
       /\ (Overlap(req, peer, peer') /\ StoredPatch(peer'.body)
           /\ \E i \in items : i.id = 1 /\ i.userId = peer.user.id) => peer'.resp.status = 200
       /\ (Overlap(peer, req, req') /\ StoredPatch(req'.body)
           /\ \E i \in items : i.id = 1 /\ i.userId = req.user.id) => req'.resp.status = 200]_vars

\* both updates of the item are in their handlers
C25_WitnessBothInFlight ==
    /\ req.pc = "handler" /\ req.op = "update"
    /\ peer.pc = "handler" /\ peer.op = "update"
    /\ req.user.id = peer.user.id
    /\ \E i \in items : i.id = 1 /\ i.userId = req.user.id

(***************************************************************************)
(* Invariants of the rows                                                  *)
(***************************************************************************)
\* C26: a row gets the userId of the user its create request was made for
\* and keeps it in every step, whoever sends whatever update.
C26_OwnerNeverChanges ==
    [][/\ \A i \in items, n \in items' : n.id = i.id => n.userId = i.userId
       /\ \A n \in items' :
             (~\E i \in items : i.id = n.id) => (Answers("create") /\ n.userId = req.user.id)]_vars

\* another user than the owner has sent a valid update, which names a stored
\* column, for the id of an item
C26_Witness ==
    /\ CrossOwnerDone
    /\ req.op = "update"
    /\ StoredPatch(req.body)
    /\ \E i \in items : i.id = parseInt(req.idParam).val /\ i.userId # req.user.id

\* the name has a character that is not a blank
HasText(name) == \E k \in 1..Len(name) : name[k] # " "

\* C27: every row has a name of 1 to 255 characters and a quantity of at
\* least 1, and a name written by an update is not empty after trimming.
C27_RowsKeepTheirBounds ==
    [][/\ \A n \in items' : /\ Len(n.name) \in 1..255
                            /\ n.quantity >= 1
       /\ (Answers("update") /\ req'.resp.status = 200 /\ "name" \in req'.body.keys) =>
             \A n \in items' : n.id = parseInt(req'.idParam).val => HasText(n.name)]_vars

\* what the code keeps of C27: the bounds of every row, a name of blanks
\* counting as a name
C27_RowsWithinSchemaBounds ==
    \A i \in items : Len(i.name) \in 1..255 /\ i.quantity >= 1

(***************************************************************************)
(* SpecTokens: the tokens of register and login, presented as bearer       *)
(* credentials while time passes up to the expiry of the refresh token     *)
(***************************************************************************)
\* the tokens register returned when the account was made, and those a login
\* returns now
TokenHeaders ==
    {Bearer(t) : t \in UNION {UNION {{AccessToken(u, s), RefreshToken(u, s)} :
                                        s \in {u.createdAt, now}} : u \in users}}

NextTokens ==
    \/ \E b \in RegisterBodies : RegisterLookup(MaxAccountRequests, b, FALSE)
    \/ RegisterInsert(FALSE)
    \/ \E b \in RegisterBodies : Login(MaxAccountRequests, b, FALSE)
    \/ \E h \in TokenHeaders, dbDown \in BOOLEAN :
          Authenticate({"list"}, MaxAccountRequests, h, dbDown)
    \/ \E q \in AuthQueries : HandleList(q, FALSE)
    \/ Tick(MaxTokenTime)

SpecTokens == Init /\ [][NextTokens]_vars

\* the arriving request was let through as user u
ResolvedTo(u) == req'.pc = "handler" /\ req'.user = userView(u)

\* the arriving request was refused because the lookup of the user failed
LookupFailed ==
    /\ req'.pc = "done"
    /\ req'.resp.status = 401
    /\ req'.resp.error = "Authentication failed"

\* C28: an access token that register or login returned for user U, presented
\* as "Bearer <token>" before its expiry while U's row exists, is resolved to
\* U's row as it is now (unless the lookup itself fails, which is answered 401),
\* never to the row of another user.
C28_AccessTokenResolvesToItsUser ==
    [][Arrives =>
          \A u \in users : \A t \in u.createdAt..now :
              (req'.header = Bearer(AccessToken(u, t)) /\ now < t + jwtExpiresIn) =>
                  /\ ResolvedTo(u) \/ LookupFailed
                  /\ req'.pc = "handler" => req'.user.id = u.id]_vars

\* the access token of the second of two users was presented and let through
C28_Witness ==
    /\ req.pc = "handler"
    /\ Cardinality(users) = 2
    /\ \E u \in users :
          /\ req.header = Bearer(AccessToken(u, now))
          /\ req.user = userView(u)
          /\ \E v \in users : v.id < u.id

\* C29: the refresh token that register or login returned, presented as a
\* bearer credential before its expiry, authenticates a request as the access
\* token does, also when the access token issued with it has expired.
C29_RefreshTokenAuthenticates ==
    [][Arrives =>
          \A u \in users : \A t \in u.createdAt..now :
              (req'.header = Bearer(RefreshToken(u, t)) /\ now < t + refreshTokenExpiresIn) =>
                  ResolvedTo(u) \/ LookupFailed]_vars

\* a refresh token was let through at a time when the access token issued with
\* it had expired
C29_Witness ==
    /\ req.pc = "handler"
    /\ \E u \in users : \E t \in u.createdAt..now :
          /\ req.header = Bearer(RefreshToken(u, t))
          /\ req.user = userView(u)
          /\ now >= t + jwtExpiresIn

\* a refresh token was refused as expired
C29_WitnessExpired ==
    /\ req.pc = "done"
    /\ req.resp.error = "Token has expired"
    /\ \E u \in users : \E t \in u.createdAt..now :
          /\ req.header = Bearer(RefreshToken(u, t))
          /\ now >= t + refreshTokenExpiresIn

(***************************************************************************)
(* SpecTransaction: connection.ts, transaction(callback), called once      *)
(* after the other; every statement and the connect can fail               *)
(***************************************************************************)
\* client.query(text): the statement reaches the log, and succeeds or throws
Issue(t, text) == [t EXCEPT !.log = Append(t.log, text)]

\* the catch block is entered with the error of the step that threw
Caught(t, step) == [t EXCEPT !.pc = "rollback", !.failed = step]

\* const client = await getPool().connect(): a rejection leaves the function
\* before the try block, with the error of the driver
TransactionConnect(ok) ==
    /\ txn.pc \in {"idle", "done"}
    /\ Len(txn.results) < MaxTransactions
    /\ txn' = IF ok
              THEN [NoTransaction EXCEPT !.pc = "begin", !.held = 1, !.results = txn.results]
              ELSE [NoTransaction EXCEPT !.pc = "done", !.failed = "connect",
                                         !.outcome = "Error",
                                         !.results = Append(txn.results, "Error")]
    /\ UNCHANGED <<dbVars, now, req, peer, nreq, hdr, tok, vnow, out>>

\* await client.query('BEGIN')
TransactionBegin(ok) ==
    /\ txn.pc = "begin"
    /\ txn' = IF ok THEN [Issue(txn, "BEGIN") EXCEPT !.pc = "callback"]
              ELSE Caught(Issue(txn, "BEGIN"), "BEGIN")
    /\ UNCHANGED <<dbVars, now, req, peer, nreq, hdr, tok, vnow, out>>

\* const result = await callback(client): the callback issues n statements and
\* resolves, or throws after them
TransactionCallback(n, ok) ==
    /\ txn.pc = "callback"
    /\ LET t == [txn EXCEPT !.log = txn.log \o [i \in 1..n |-> "STMT"]]
       IN  txn' = IF ok THEN [t EXCEPT !.pc = "commit"] ELSE Caught(t, "callback")
    /\ UNCHANGED <<dbVars, now, req, peer, nreq, hdr, tok, vnow, out>>

\* await client.query('COMMIT'); return result
TransactionCommit(ok) ==
    /\ txn.pc = "commit"
    /\ txn' = IF ok THEN [Issue(txn, "COMMIT") EXCEPT !.pc = "finally", !.pending = "success"]
              ELSE Caught(Issue(txn, "COMMIT"), "COMMIT")
    /\ UNCHANGED <<dbVars, now, req, peer, nreq, hdr, tok, vnow, out>>

\* catch: await client.query('ROLLBACK'); throw new DatabaseError(...): when the
\* ROLLBACK throws, its error leaves the catch block instead
TransactionRollback(ok) ==
    /\ txn.pc = "rollback"
    /\ txn' = [Issue(txn, "ROLLBACK") EXCEPT
                  !.pc = "finally",
                  !.rollbackFailed = ~ok,
                  !.pending = IF ok THEN "DatabaseError" ELSE "Error"]
    /\ UNCHANGED <<dbVars, now, req, peer, nreq, hdr, tok, vnow, out>>

\* finally: client.release(), then the pending return or throw completes
TransactionRelease ==
    /\ txn.pc = "finally"
    /\ txn' = [txn EXCEPT !.pc = "done", !.held = @ - 1, !.released = @ + 1,
                          !.outcome = txn.pending,
                          !.results = Append(@, txn.pending)]
    /\ UNCHANGED <<dbVars, now, req, peer, nreq, hdr, tok, vnow, out>>

NextTransaction ==
    \/ \E ok \in BOOLEAN : TransactionConnect(ok)
    \/ \E ok \in BOOLEAN : TransactionBegin(ok)
    \/ \E n \in 0..MaxStatements, ok \in BOOLEAN : TransactionCallback(n, ok)
    \/ \E ok \in BOOLEAN : TransactionCommit(ok)
    \/ \E ok \in BOOLEAN : TransactionRollback(ok)
    \/ TransactionRelease

SpecTransaction == Init /\ [][NextTransaction]_vars

\* COMMIT is in the log only after a BEGIN and a callback that both succeeded
CommitInOrder ==
    \A i \in 1..Len(txn.log) :
        txn.log[i] = "COMMIT" =>
            /\ i > 1
            /\ txn.log[1] = "BEGIN"
            /\ \A j \in 2..(i - 1) : txn.log[j] = "STMT"
            /\ txn.failed \in {"", "COMMIT"}

\* the call is over and BEGIN, the callback or COMMIT had failed
FailedInside == txn.pc = "done" /\ txn.failed \in {"BEGIN", "callback", "COMMIT"}

\* the client that was acquired is released once, at the end, and only then
ReleasedOnce ==
    /\ txn.released = (IF txn.pc = "done" /\ txn.failed # "connect" THEN 1 ELSE 0)
    /\ txn.held = (IF txn.pc \in {"idle", "done"} THEN 0 ELSE 1)

\* C30: transaction issues COMMIT only after BEGIN and the callback succeeded;
\* when BEGIN, the callback or COMMIT fails it issues ROLLBACK, does not report
\* success and throws DatabaseError; on every path, a failing ROLLBACK included,
\* the acquired client is released exactly once.
C30_TransactionAsClaimed ==
    /\ CommitInOrder
    /\ FailedInside =>
          /\ txn.log[Len(txn.log)] = "ROLLBACK"
          /\ txn.outcome # "success"
          /\ txn.outcome = "DatabaseError"
    /\ ReleasedOnce

\* C30 (what the code keeps): as claimed, but the error thrown is DatabaseError
\* only when the ROLLBACK succeeded; when the ROLLBACK fails too, the error of
\* the ROLLBACK is thrown; success is reported exactly when COMMIT succeeded.
C30_TransactionUnlessRollbackFails ==
    /\ CommitInOrder
    /\ FailedInside =>
          /\ txn.log[Len(txn.log)] = "ROLLBACK"
          /\ txn.outcome = (IF txn.rollbackFailed THEN "Error" ELSE "DatabaseError")
    /\ (txn.pc = "done" /\ txn.outcome = "success") =>
          /\ txn.failed = ""
          /\ txn.log[Len(txn.log)] = "COMMIT"
    /\ ReleasedOnce

\* BEGIN failed, the ROLLBACK failed too, and the client was released
C30_WitnessRollbackFails ==
    /\ txn.pc = "done"
    /\ txn.failed = "BEGIN"
    /\ txn.rollbackFailed
    /\ txn.released = 1
    /\ txn.outcome = "Error"

\* a COMMIT failed after a callback with statements, and was rolled back
C30_WitnessCommitFails ==
    /\ txn.pc = "done"
    /\ txn.failed = "COMMIT"
    /\ Len(txn.log) = MaxStatements + 3
    /\ txn.outcome = "DatabaseError"

====
